---- MODULE Spec2Model ----
(***************************************************************************)
(* A model of the CYOA engine's story-text pipeline (shared/utils.ts,      *)
(* shared/format.ts, engine/variables.ts), of the editor's page graph      *)
(* (editor/pages.ts, editor/graph.ts) and of the player's page loading     *)
(* (engine/main.ts, engine/audio.ts).                                      *)
(*                                                                         *)
(* Page text is a sequence of tokens.  A token is either a run of plain    *)
(* text or one brace span `{...}`: every regular expression of the source  *)
(* starts at a `{` and ends at the first `}` after it (the conditional     *)
(* block expression ends at a `{/if}`), so a match never starts or ends    *)
(* inside a token.  A token keeps the parts of its spelling the            *)
(* expressions look at.                                                    *)
(***************************************************************************)
EXTENDS Integers, Sequences, FiniteSets, TLC

VARIABLES
    pc,            \* position of the operation being applied
    text,          \* the page text handed to the pipeline
    variables,     \* the VariableState handed to the pipeline
    result,        \* what the applied function returned
    pages,         \* the editor's page collection, Record<string, Page>
    editorState,   \* editor/main.ts: state (currentPageId, undoManager, ...)
    editorElements,\* editor/main.ts: the form elements of the editor
    playerState,   \* engine/main.ts: playerState
    elements,      \* engine/main.ts: the DOM elements written by the player
    storage,       \* localStorage entry of the story's saved progress
    audioManager,  \* engine/main.ts: audioManager
    assetManager,  \* engine/main.ts: assetManager
    storyDirHandle,\* engine/main.ts: the opened story folder, its page files
    loads          \* the loadPage() calls in flight

textVars   == <<text, variables, result>>
editorVars == <<pages, editorState, editorElements>>
playerVars == <<playerState, elements, storage, audioManager, assetManager,
                storyDirHandle, loads>>
vars       == <<pc, textVars, editorVars, playerVars>>

(***************************************************************************)
(* VariableValue = string | number | boolean, and undefined.               *)
(***************************************************************************)
Undefined == [t |-> "undefined", n |-> 0, s |-> ""]
Bool(b)   == [t |-> "boolean", n |-> IF b THEN 1 ELSE 0, s |-> ""]
Num(k)    == [t |-> "number", n |-> k, s |-> ""]
Str(x)    == [t |-> "string", n |-> 0, s |-> x]

\* the variable names stories of the model use
VarNames == {"x", "hasKey"}

\* VariableState: a name that is no key of the object reads as undefined
EmptyState == [name \in VarNames |-> Undefined]

Keys(state) == {name \in VarNames : state[name] # Undefined}

\* A VariableState is a plain object ({}, a spread copy, the result of
\* JSON.parse): `variables[name]` for a name that is no key of it reads the
\* member of Object.prototype of that name, or undefined.
PrototypeNames == {"constructor"}

Inherited(name) == [t |-> "function", n |-> 0, s |-> name]

Get(state, name) ==
    IF name \in VarNames /\ state[name] # Undefined THEN state[name]
    ELSE IF name \in PrototypeNames THEN Inherited(name)
    ELSE Undefined

(***************************************************************************)
(* Value literals as they are spelled in a directive, and their typing.    *)
(***************************************************************************)
NumberLiterals == {"0", "1", "5", "10"}

NumberOf(lit) ==
    CASE lit = "0" -> 0
      [] lit = "1" -> 1
      [] lit = "5" -> 5
      [] lit = "10" -> 10

\* String.prototype.trim on the literals of the model
Trim(lit) == IF lit = " 5 " THEN "5" ELSE lit

parseValue(value) ==
    IF value = "true" THEN Bool(TRUE)
    ELSE IF value = "false" THEN Bool(FALSE)
    ELSE IF value \in NumberLiterals THEN Num(NumberOf(value))
    ELSE Str(value)

parseVariableValue(value) == parseValue(Trim(value))

(***************************************************************************)
(* evaluateCondition                                                       *)
(***************************************************************************)
Operators == {"==", "!=", ">", "<", ">=", "<="}

BothNumbers(value, compareValue) ==
    value.t = "number" /\ compareValue.t = "number"

evaluateCondition(state, name, operator, compareValue) ==
    LET value == Get(state, name) IN
    IF value = Undefined
    THEN operator = "!=" \/ (operator = "==" /\ compareValue = Bool(FALSE))
    ELSE CASE operator = "==" -> value = compareValue
           [] operator = "!=" -> value # compareValue
           [] operator = ">"  -> BothNumbers(value, compareValue) /\ value.n > compareValue.n
           [] operator = "<"  -> BothNumbers(value, compareValue) /\ value.n < compareValue.n
           [] operator = ">=" -> BothNumbers(value, compareValue) /\ value.n >= compareValue.n
           [] operator = "<=" -> BothNumbers(value, compareValue) /\ value.n <= compareValue.n
           [] OTHER -> FALSE

(***************************************************************************)
(* Tokens.  kw is the keyword of a brace span ("txt" for plain text, "/if" *)
(* for `{/if}`, "asset" for a span with no keyword); a is the name, file,  *)
(* target or the plain text; op and v are the operator and the value       *)
(* literal when the span spells them ("" when it does not); lp says that   *)
(* the span ends in `:loop`.                                               *)
(***************************************************************************)
Tok(kw, a, op, v, lp) == [kw |-> kw, a |-> a, op |-> op, v |-> v, lp |-> lp]

Txt(s)              == Tok("txt", s, "", "", FALSE)       \* plain text
SetTok(name, lit)   == Tok("set", name, "=", lit, FALSE)  \* {set:NAME=VALUE}
AddTok(name, lit)   == Tok("add", name, IF lit = "" THEN "" ELSE "=", lit, FALSE)
SubTok(name, lit)   == Tok("sub", name, IF lit = "" THEN "" ELSE "=", lit, FALSE)
IfTok(name, op, lit) == Tok("if", name, op, lit, FALSE)   \* {if:NAME} {if:NAME OP VALUE}
EndIf               == Tok("/if", "", "", "", FALSE)      \* {/if}
Music(file, loop)   == Tok("music", file, "", "", loop)   \* {music:FILE} {music:FILE:loop}
Sfx(file)           == Tok("sfx", file, "", "", FALSE)    \* {sfx:FILE}
Ambient(file, loop) == Tok("ambient", file, "", "", loop) \* {ambient:FILE} {ambient:FILE:loop}
Stop(target)        == Tok("stop", target, "", "", FALSE) \* {stop:TARGET}
Goto(id)            == Tok("goto", id, "", "", FALSE)     \* {goto:PAGEID}
Asset(name, size)   == Tok("asset", name, "", size, FALSE) \* {NAME} {NAME:SIZE}; {FILE:loop}

ParagraphBreak == Txt("\n\n")

\* the matches of a regular expression, in the order exec() finds them
Matches(t, Regex(_)) == SelectSeq(t, Regex)

\* String.prototype.replace(fullMatch, ''): the first occurrence is removed
RECURSIVE RemoveFirst(_, _)
RemoveFirst(t, tok) ==
    IF t = <<>> THEN <<>>
    ELSE IF Head(t) = tok THEN Tail(t)
    ELSE <<Head(t)>> \o RemoveFirst(Tail(t), tok)

(***************************************************************************)
(* parseVariables: one regular expression after the other, each over the   *)
(* whole text.                                                             *)
(***************************************************************************)
setRegex(tok)   == tok.kw = "set" /\ tok.op = "=" /\ tok.v # ""
addRegex(tok)   == tok.kw = "add"
subRegex(tok)   == tok.kw = "sub"
ifRegex(tok)    == tok.kw = "if"
endifRegex(tok) == tok.kw = "/if"

\* the VariableOperation of a matched token
Operation(tok) ==
    [type  |-> IF tok.kw = "/if" THEN "endif" ELSE tok.kw,
     name  |-> tok.a,
     value |-> CASE tok.kw = "set" -> parseVariableValue(tok.v)
                 [] tok.kw \in {"add", "sub"} ->
                        IF tok.v # "" THEN parseVariableValue(tok.v) ELSE Num(1)
                 [] tok.kw = "if" ->
                        IF tok.v # "" THEN parseVariableValue(tok.v) ELSE Bool(TRUE)
                 [] OTHER -> Undefined,
     operator |-> IF tok.kw = "if" /\ tok.op # "" THEN tok.op ELSE "==",
     fullMatch |-> tok]

MapOperation(t) == [i \in 1..Len(t) |-> Operation(t[i])]

\* the set/add/sub directives of a text in the order they are written
TextualOperations(t) ==
    MapOperation(SelectSeq(t, LAMBDA tok : setRegex(tok) \/ addRegex(tok) \/ subRegex(tok)))

parseVariables(t) ==
    MapOperation(Matches(t, setRegex))
    \o MapOperation(Matches(t, addRegex))
    \o MapOperation(Matches(t, subRegex))
    \o MapOperation(Matches(t, ifRegex))
    \o MapOperation(Matches(t, endifRegex))

\* the current value taken as 0 whatever is stored
Current_zero(state, name) == 0

\* typeof newVariables[op.name] === 'number' ? newVariables[op.name] : 0
Current(state, name) == IF state[name].t = "number" THEN state[name].n ELSE 0

(***************************************************************************)
(* Conditional blocks.                                                     *)
(***************************************************************************)
\* the predicate of a matched {if:...} token
Predicate(state, tok) ==
    evaluateCondition(state, tok.a,
                      IF tok.op # "" THEN tok.op ELSE "==",
                      IF tok.v # "" THEN parseValue(Trim(tok.v)) ELSE Bool(TRUE))

\* index of the first token from i on whose keyword is in kws, 0 when there is none
RECURSIVE FirstFrom(_, _, _)
FirstFrom(t, i, kws) ==
    IF i > Len(t) THEN 0
    ELSE IF t[i].kw \in kws THEN i
    ELSE FirstFrom(t, i + 1, kws)

\* engine/variables.ts: {if:..}((?:(?!\{if:)[\s\S])*?){/if}: the block that
\* opens at i closes at the first {/if} after it, with no {if: in between
InnermostEnd(t, i) ==
    LET j == FirstFrom(t, i + 1, {"if", "/if"}) IN
    IF j # 0 /\ t[j].kw = "/if" THEN j ELSE 0

\* shared/format.ts: {if:..}([\s\S]*?){/if}: the block that opens at i
\* closes at the first {/if} after it
FirstEnd(t, i) == FirstFrom(t, i + 1, {"/if"})

\* where the block that opens at i ends under the expression of `module`
BlockEnd(t, i, module) ==
    IF module = "engine" THEN InnermostEnd(t, i) ELSE FirstEnd(t, i)

\* one String.prototype.replace(regex /g, callback) over the text from i on
RECURSIVE ReplaceBlocks(_, _, _, _)
ReplaceBlocks(t, state, i, module) ==
    IF i > Len(t) THEN <<>>
    ELSE IF t[i].kw = "if" /\ BlockEnd(t, i, module) # 0
         THEN (IF Predicate(state, t[i])
               THEN SubSeq(t, i + 1, BlockEnd(t, i, module) - 1)
               ELSE <<>>)
              \o ReplaceBlocks(t, state, BlockEnd(t, i, module) + 1, module)
         ELSE <<t[i]>> \o ReplaceBlocks(t, state, i + 1, module)

\* engine/variables.ts processConditionals: repeat while a pass replaced a block
RECURSIVE processConditionals_engine(_, _)
processConditionals_engine(t, state) ==
    IF \E i \in 1..Len(t) : t[i].kw = "if" /\ InnermostEnd(t, i) # 0
    THEN processConditionals_engine(ReplaceBlocks(t, state, 1, "engine"), state)
    ELSE t

\* shared/format.ts processConditionals: a single pass
processConditionals_format(t, state) == ReplaceBlocks(t, state, 1, "format")

(***************************************************************************)
(* processVariables, engine/variables.ts and shared/format.ts.             *)
(***************************************************************************)
\* one iteration of `for (const op of operations)`, engine/variables.ts
ApplyOperation_engine(acc, op) ==
    CASE op.type = "set" ->
            [variables |-> [acc.variables EXCEPT ![op.name] = op.value],
             text |-> RemoveFirst(acc.text, op.fullMatch)]
      [] op.type = "add" ->
            [variables |-> IF op.value.t = "number"
                           THEN [acc.variables EXCEPT ![op.name] =
                                     Num(Current(acc.variables, op.name) + op.value.n)]
                           ELSE acc.variables,
             text |-> RemoveFirst(acc.text, op.fullMatch)]
      [] op.type = "sub" ->
            [variables |-> IF op.value.t = "number"
                           THEN [acc.variables EXCEPT ![op.name] =
                                     Num(Current(acc.variables, op.name) - op.value.n)]
                           ELSE acc.variables,
             text |-> RemoveFirst(acc.text, op.fullMatch)]
      [] OTHER -> acc

\* one iteration of `for (const op of operations)`, shared/format.ts
ApplyOperation_format(acc, op) ==
    IF op.type = "set" /\ op.value # Undefined
    THEN [variables |-> [acc.variables EXCEPT ![op.name] = op.value],
          text |-> RemoveFirst(acc.text, op.fullMatch)]
    ELSE IF op.type = "add" /\ op.value.t = "number"
    THEN [variables |-> [acc.variables EXCEPT ![op.name] =
                             Num(Current(acc.variables, op.name) + op.value.n)],
          text |-> RemoveFirst(acc.text, op.fullMatch)]
    ELSE IF op.type = "sub" /\ op.value.t = "number"
    THEN [variables |-> [acc.variables EXCEPT ![op.name] =
                             Num(Current(acc.variables, op.name) - op.value.n)],
          text |-> RemoveFirst(acc.text, op.fullMatch)]
    ELSE acc

\* the loop that takes the directives out of the text and applies none
ApplyOperations_removed(acc, ops, module) ==
    [variables |-> acc.variables,
     text |-> SelectSeq(acc.text,
                        LAMBDA tok : \A k \in 1..Len(ops) :
                            ops[k].type \in {"set", "add", "sub"} => ops[k].fullMatch # tok)]

RECURSIVE ApplyOperations(_, _, _)
ApplyOperations(acc, ops, module) ==
    IF ops = <<>> THEN acc
    ELSE ApplyOperations(IF module = "engine"
                         THEN ApplyOperation_engine(acc, Head(ops))
                         ELSE ApplyOperation_format(acc, Head(ops)),
                         Tail(ops), module)

\* the return statement: the conditionals of the remaining text are resolved
\* under the new variables
ProcessedText(done, module) ==
    [text |-> IF module = "engine"
              THEN processConditionals_engine(done.text, done.variables)
              ELSE processConditionals_format(done.text, done.variables),
     variables |-> done.variables]

processVariables_engine(t, state) ==
    ProcessedText(ApplyOperations([variables |-> state, text |-> t],
                                  parseVariables(t), "engine"), "engine")

processVariables_format(t, state) ==
    ProcessedText(ApplyOperations([variables |-> state, text |-> t],
                                  parseVariables(t), "format"), "format")

(***************************************************************************)
(* parseAudioCommands and parseGotoCommands.                               *)
(***************************************************************************)
StopTargets == {"music", "sfx", "ambient", "all"}

musicRegex(tok)   == tok.kw = "music"                    \* {music:([^}:]+)(?::(loop))?}
sfxRegex(tok)     == tok.kw = "sfx"                      \* {sfx:([^}]+)}
\* {(?:ambient:)?([^}:]+):loop}: {ambient:FILE:loop} and the bare {FILE:loop}
ambientRegex(tok) == \/ tok.kw = "ambient" /\ tok.lp
                     \/ tok.kw = "asset" /\ tok.v = "loop"
stopRegex(tok)    == tok.kw = "stop" /\ tok.a \in StopTargets
gotoRegex(tok)    == tok.kw = "goto"                     \* {goto:(\d+[a-e]*)}

AudioCommand(type, tok) ==
    [type |-> type,
     file |-> tok.a,
     loop |-> IF type = "music" THEN tok.lp ELSE type = "ambient",
     fullMatch |-> tok]

MapAudio(type, t) == [i \in 1..Len(t) |-> AudioCommand(type, t[i])]

\* the audio directives of a text in the order they are written
TextualAudioCommands(t) ==
    LET hit == SelectSeq(t, LAMBDA tok : musicRegex(tok) \/ sfxRegex(tok)
                                          \/ ambientRegex(tok) \/ stopRegex(tok))
    IN  [i \in 1..Len(hit) |->
            AudioCommand(CASE musicRegex(hit[i]) -> "music"
                           [] sfxRegex(hit[i]) -> "sfx"
                           [] ambientRegex(hit[i]) -> "ambient"
                           [] OTHER -> "stop", hit[i])]

parseAudioCommands(t) ==
    MapAudio("music", Matches(t, musicRegex))
    \o MapAudio("sfx", Matches(t, sfxRegex))
    \o MapAudio("ambient", Matches(t, ambientRegex))
    \o MapAudio("stop", Matches(t, stopRegex))

parseGotoCommands(t) ==
    LET hit == Matches(t, gotoRegex)
    IN  [i \in 1..Len(hit) |-> [pageId |-> hit[i].a, fullMatch |-> hit[i]]]

(***************************************************************************)
(* stripCommands, formatText, markAssets, textToHtml, formatStoryContent.  *)
(***************************************************************************)
Stripped(tok) ==
    \/ setRegex(tok)                          \* {set:\w+=[^}]+}
    \/ addRegex(tok) \/ subRegex(tok)         \* {add:\w+(?:=[^}]+)?}
    \/ tok.kw \in {"music", "sfx", "ambient"} \* {music:[^}]+} {sfx:[^}]+} {ambient:[^}]+}
    \/ tok.kw = "asset" /\ tok.v = "loop"     \* {[^}:]+:loop}
    \/ stopRegex(tok)
    \/ gotoRegex(tok)

stripCommands(t) == SelectSeq(t, LAMBDA tok : ~Stripped(tok))

\* formatText on the plain-text runs of the model: bold, then `--`, then
\* `---`, then `...`, each replaced over the whole text in that order
FormatRun(run) ==
    CASE run = "**bold**" -> "<strong>bold</strong>"
      [] run = "--"  -> "[en-dash]"
      [] run = "---" -> "[en-dash]-"
      [] run = "..." -> "[ellipsis]"
      [] OTHER -> run

formatText(t) ==
    [i \in 1..Len(t) |-> IF t[i].kw = "txt" THEN Txt(FormatRun(t[i].a)) ELSE t[i]]

\* the names of the model that are not \w+
NotWord == {"theme.mp3", "rain.mp3", "door.wav", "cave.png", "<img onerror>", ""}

\* the plain names of the model: what can follow a prefix in a name
Names == {"", "x", "hasKey", "theme", "theme.mp3", "rain.mp3", "door.wav", "cave.png",
          "cave", "music", "all", "2", "2a", "ting.png", "watch"}

\* String.prototype.startsWith and String.prototype.includes
StartsWith(str, prefix) == \E rest \in Names : str = prefix \o rest

Includes(str, part) == \E before, after \in Names : str = (before \o part) \o after

\* /\{([^}:]+?)(?::(\w+))?\}/: the span up to its first ':' and, behind the
\* ':', a word up to the closing brace.  match[1] and match[2], or no match.
AssetMatch(tok) ==
    CASE tok.kw = "txt"   -> [hit |-> FALSE, name |-> "", size |-> ""]
      [] tok.kw = "/if"   -> [hit |-> TRUE, name |-> "/if", size |-> ""]
      [] tok.kw = "asset" -> [hit |-> tok.a # "", name |-> tok.a, size |-> tok.v]
      [] tok.kw \in {"choice", "placeholder", "img", "video"} ->
                             [hit |-> FALSE, name |-> "", size |-> ""]
      [] OTHER -> [hit  |-> tok.op = "" /\ ~tok.lp /\ tok.a \notin NotWord,
                   name |-> tok.kw, size |-> tok.a]

CommandPrefixes == {"set:", "add:", "sub:", "if:", "music:", "sfx:", "ambient:",
                    "goto:", "stop:"}

Placeholder(assetName, size) == Tok("placeholder", assetName, "", size, FALSE)

markAssets(t) ==
    [i \in 1..Len(t) |->
        LET m == AssetMatch(t[i]) IN
        IF ~m.hit THEN t[i]
        ELSE IF \/ \E prefix \in CommandPrefixes : StartsWith(m.name, prefix)
                \/ m.name = "/if"
             THEN t[i]
             ELSE Placeholder(m.name, m.size)]

\* editor/pages.ts extractAssetReferences
extractAssetReferences(t) ==
    LET hit == SelectSeq(t, LAMBDA tok :
                   LET m == AssetMatch(tok) IN
                   /\ m.hit
                   /\ ~ \/ Includes(m.name, ":")
                        \/ m.name = "/if"
                        \/ \E prefix \in CommandPrefixes : StartsWith(m.name, prefix))
    IN  [i \in 1..Len(hit) |-> AssetMatch(hit[i]).name]

\* editor/assets.ts parseAssetReferences: the command test is startsWith(cmd),
\* the keyword without its ':'
AssetCommands == {"set", "add", "sub", "if", "music", "sfx", "ambient", "goto", "stop"}

AssetReference(m) == [filename |-> m.name, size |-> m.size]

parseAssetReferences(t) ==
    LET hit == SelectSeq(t, LAMBDA tok :
                   LET m == AssetMatch(tok) IN
                   /\ m.hit
                   /\ ~ \/ Includes(m.name, ":")
                        \/ m.name = "/if"
                        \/ \E cmd \in AssetCommands : StartsWith(m.name, cmd))
    IN  [i \in 1..Len(hit) |-> AssetReference(AssetMatch(hit[i]))]

\* the extensions findUnusedAssets adds to a referenced name
UsedExtensions == {"", ".png", ".jpg", ".jpeg", ".gif", ".mp4", ".webm", ".mp3", ".wav"}

\* name.replace(/\.[^.]+$/, '') on the asset names of the model
BaseName(name) ==
    CASE name = "cave.png" -> "cave"
      [] name = "setting.png" -> "setting"
      [] name = "stopwatch.webp" -> "stopwatch"
      [] name = "rain.mp3" -> "rain"
      [] OTHER -> name

\* editor/assets.ts findUnusedAssets; assetNames is Object.keys(assets), pgs
\* the sequence of the pages' contents
findUnusedAssets(assetNames, pgs) ==
    LET usedAssets == {ref.filename \o ext :
                          ref \in UNION {{parseAssetReferences(pgs[k])[i] :
                                             i \in 1..Len(parseAssetReferences(pgs[k]))} :
                                         k \in 1..Len(pgs)},
                          ext \in UsedExtensions}
    IN  SelectSeq(assetNames, LAMBDA name :
            name \notin usedAssets /\ BaseName(name) \notin usedAssets)

\* the paragraphs of a text: split at blank lines, empty paragraphs dropped
RECURSIVE Paragraphs(_, _)
Paragraphs(t, cur) ==
    IF t = <<>> THEN (IF cur = <<>> THEN <<>> ELSE <<cur>>)
    ELSE IF Head(t) = ParagraphBreak
         THEN (IF cur = <<>> THEN <<>> ELSE <<cur>>) \o Paragraphs(Tail(t), <<>>)
         ELSE Paragraphs(Tail(t), Append(cur, Head(t)))

\* html: the <p> elements, each the tokens of its paragraph
textToHtml(t) == Paragraphs(t, <<>>)

\* formatStoryContent from the processed text on
FormatProcessed(processed) ==
    [html |-> textToHtml(markAssets(formatText(stripCommands(processed.text)))),
     variables |-> processed.variables,
     audioCommands |-> parseAudioCommands(processed.text),
     gotoCommands |-> parseGotoCommands(processed.text)]

formatStoryContent(t, state) == FormatProcessed(processVariables_format(t, state))

(***************************************************************************)
(* Inputs of the pipeline functions.                                       *)
(***************************************************************************)
SeqsUpTo(S, n) == UNION {[1..k -> S] : k \in 0..n}

NoResult == [fn |-> "none"]

TextIdle   == text = <<>> /\ variables = EmptyState /\ result = NoResult
EditorIdle == pages = <<>> /\ editorState = <<>> /\ editorElements = <<>>
PlayerIdle == /\ playerState = <<>>
              /\ elements = <<>>
              /\ storage = <<>>
              /\ audioManager = <<>>
              /\ assetManager = <<>>
              /\ storyDirHandle = <<>>
              /\ loads = <<>>

\* a function of the pipeline is applied to the input and returns
Return(fn, value) ==
    /\ pc = "input"
    /\ pc' = "done"
    /\ result' = [fn |-> fn, value |-> value]
    /\ UNCHANGED <<text, variables, editorVars, playerVars>>

Returned(fn) == pc = "done" /\ result.fn = fn

(***************************************************************************)
(* evaluateCondition on every state, name, operator and compare value.     *)
(***************************************************************************)
Values == {Bool(TRUE), Bool(FALSE), Num(0), Num(5), Num(10), Str("key"), Str("5")}

EvalStates == [VarNames -> {Undefined, Bool(TRUE), Bool(FALSE), Num(5), Str("key")}]

EvaluateCondition ==
    \E name \in VarNames \cup PrototypeNames, operator \in Operators \cup {"="},
       compareValue \in Values :
        Return("evaluateCondition",
               [name |-> name, operator |-> operator, compareValue |-> compareValue,
                value |-> evaluateCondition(variables, name, operator, compareValue)])

InitEval == /\ pc = "input"
            /\ text = <<>>
            /\ variables \in EvalStates
            /\ result = NoResult
            /\ EditorIdle /\ PlayerIdle

NextEval == EvaluateCondition

SpecEval == InitEval /\ [][NextEval]_vars

\* C10: evaluateCondition(state, name, op, v): with name absent the result is
\* true iff op is '!=' or (op is '==' and v is false); with name present '=='
\* and '!=' compare by strict value-and-type equality and the four orderings
\* give the numeric comparison when the stored value and v are both numbers,
\* false otherwise.
C10_EvaluateCondition ==
    Returned("evaluateCondition") /\ result.value.operator \in Operators =>
        LET r     == result.value
            value == variables[r.name]
            v     == r.compareValue
            nums  == value.t = "number" /\ v.t = "number"
        IN  IF r.name \notin Keys(variables)
            THEN r.value <=> (r.operator = "!=" \/ (r.operator = "==" /\ v = Bool(FALSE)))
            ELSE /\ r.operator = "==" => (r.value <=> (value.t = v.t /\ value.n = v.n /\ value.s = v.s))
                 /\ r.operator = "!=" => (r.value <=> ~(value.t = v.t /\ value.n = v.n /\ value.s = v.s))
                 /\ r.operator = ">"  => (r.value <=> (nums /\ value.n > v.n))
                 /\ r.operator = "<"  => (r.value <=> (nums /\ value.n < v.n))
                 /\ r.operator = ">=" => (r.value <=> (nums /\ value.n >= v.n))
                 /\ r.operator = "<=" => (r.value <=> (nums /\ value.n <= v.n))

\* C10 for the names that Object.prototype does not define
C10_OwnNames ==
    /\ Returned("evaluateCondition") /\ result.value.operator \in Operators
    /\ result.value.name \notin PrototypeNames
    =>
        LET r     == result.value
            value == variables[r.name]
            v     == r.compareValue
            nums  == value.t = "number" /\ v.t = "number"
        IN  IF r.name \notin Keys(variables)
            THEN r.value <=> (r.operator = "!=" \/ (r.operator = "==" /\ v = Bool(FALSE)))
            ELSE /\ r.operator = "==" => (r.value <=> (value.t = v.t /\ value.n = v.n /\ value.s = v.s))
                 /\ r.operator = "!=" => (r.value <=> ~(value.t = v.t /\ value.n = v.n /\ value.s = v.s))
                 /\ r.operator = ">"  => (r.value <=> (nums /\ value.n > v.n))
                 /\ r.operator = "<"  => (r.value <=> (nums /\ value.n < v.n))
                 /\ r.operator = ">=" => (r.value <=> (nums /\ value.n >= v.n))
                 /\ r.operator = "<=" => (r.value <=> (nums /\ value.n <= v.n))

(***************************************************************************)
(* processVariables (both modules) on pages of variable directives.        *)
(***************************************************************************)
MaxDirectives == 3

DirectiveAlphabet ==
    {SetTok("x", "5"), SetTok("x", "10"), SetTok("x", "key"), SetTok("hasKey", "true"),
     AddTok("x", ""), AddTok("x", "5"), AddTok("x", "key"), SubTok("x", "1"),
     SubTok("x", ""),
     IfTok("hasKey", "", ""), EndIf, Txt("X")}

DirectiveStates ==
    {[EmptyState EXCEPT !["x"] = x, !["hasKey"] = h] :
        x \in {Undefined, Num(5), Str("key")}, h \in {Undefined, Bool(TRUE)}}

ProcessVariablesEngine ==
    Return("processVariables_engine", processVariables_engine(text, variables))

ProcessVariablesFormat ==
    Return("processVariables_format", processVariables_format(text, variables))

InitVars == /\ pc = "input"
            /\ text \in SeqsUpTo(DirectiveAlphabet, MaxDirectives)
            /\ variables \in DirectiveStates
            /\ result = NoResult
            /\ EditorIdle /\ PlayerIdle

NextVars == ProcessVariablesEngine \/ ProcessVariablesFormat

SpecVars == InitVars /\ [][NextVars]_vars

\* the module whose processVariables returned
Module == IF result.fn = "processVariables_engine" THEN "engine" ELSE "format"

\* C1: within one page processVariables applies the set/add/sub directives
\* in the order they are written: the returned variable state is the fold of
\* the directives, left to right, over the input state.
C1_TextualOrder ==
    Returned("processVariables_engine") \/ Returned("processVariables_format") =>
        result.value.variables =
            ApplyOperations([variables |-> variables, text |-> text],
                            TextualOperations(text), Module).variables

\* the state NAME := c + V / c - V of an add / sub directive: c is the current
\* value of NAME when that is a number, 0 when NAME is absent or no number;
\* V is 1 when the directive spells no value
AddSub(state, tok) ==
    LET c == IF state[tok.a].t = "number" THEN state[tok.a].n ELSE 0
        V == IF tok.v = "" THEN 1 ELSE NumberOf(Trim(tok.v))
    IN  [state EXCEPT ![tok.a] = Num(IF tok.kw = "add" THEN c + V ELSE c - V)]

\* the state after the {set:..} directives of t, left to right
RECURSIVE SetAll(_, _)
SetAll(state, t) ==
    IF t = <<>> THEN state
    ELSE SetAll(IF Head(t).kw = "set"
                THEN [state EXCEPT ![Head(t).a] = parseVariableValue(Head(t).v)]
                ELSE state,
                Tail(t))

NumericAddSub(tok) ==
    tok.kw \in {"add", "sub"} /\ (tok.v = "" \/ Trim(tok.v) \in NumberLiterals)

SpreadCopy_alias(object) == object

\* `const newVariables = { ...variables }`: the object the loop assigns to
\* is a new object holding the argument's properties (engine/variables.ts
\* and shared/format.ts alike)
SpreadCopy(object) == "newVariables"

\* the caller's object after the call: what the loop's assignments leave in
\* it when they go to that object, its properties as they were otherwise
ArgumentAfter(t, state, module) ==
    IF SpreadCopy("variables") = "variables"
    THEN ApplyOperations([variables |-> state, text |-> t],
                         parseVariables(t), module).variables
    ELSE state

\* a call: the value returned, the argument as it was, and the argument's
\* object afterwards in variables
Call(fn, value, module) ==
    /\ pc = "input"
    /\ pc' = "done"
    /\ result' = [fn |-> fn, value |-> value, argument |-> variables]
    /\ variables' = ArgumentAfter(text, variables, module)
    /\ UNCHANGED <<text, editorVars, playerVars>>

CallProcessVariablesEngine ==
    Call("processVariables_engine", processVariables_engine(text, variables), "engine")

CallProcessVariablesFormat ==
    Call("processVariables_format", processVariables_format(text, variables), "format")

CallFormatStoryContent ==
    Call("formatStoryContent", formatStoryContent(text, variables), "format")

NextFrame == \/ CallProcessVariablesEngine
             \/ CallProcessVariablesFormat
             \/ CallFormatStoryContent

SpecFrame == InitVars /\ [][NextFrame]_vars

\* C21: processVariables and formatStoryContent never modify the
\* VariableState passed in: after the call the caller's state has the keys
\* and values it had before, and the updated state is the returned value.
C21_ArgumentUntouched ==
    pc = "done" =>
        /\ variables = result.argument
        /\ Keys(variables) = Keys(result.argument)
        /\ result.value.variables =
               ApplyOperations([variables |-> result.argument, text |-> text],
                               parseVariables(text),
                               IF result.fn = "processVariables_engine"
                               THEN "engine" ELSE "format").variables

C21_Witness ==
    /\ pc = "done"
    /\ result.fn = "formatStoryContent"
    /\ text = <<SetTok("x", "10"), AddTok("x", "5")>>
    /\ result.argument["x"] = Str("key")
    /\ result.value.variables["x"] = Num(15)
    /\ variables["x"] = Str("key")

(***************************************************************************)
(* Conditional resolution on pages of {if:..} / {/if} tokens and text.     *)
(***************************************************************************)
MaxBlockTokens == 5

BlockAlphabet ==
    {IfTok("hasKey", "", ""), IfTok("x", ">=", "5"), EndIf, Txt("X"), Txt("Y")}

BlockStates ==
    {[EmptyState EXCEPT !["x"] = x, !["hasKey"] = h] :
        x \in {Undefined, Num(10)}, h \in {Undefined, Bool(TRUE)}}

FormatStoryContent ==
    Return("formatStoryContent", formatStoryContent(text, variables))

InitBlocks == /\ pc = "input"
              /\ text \in SeqsUpTo(BlockAlphabet, MaxBlockTokens)
              /\ variables \in BlockStates
              /\ result = NoResult
              /\ EditorIdle /\ PlayerIdle

NextBlocks == ProcessVariablesEngine \/ FormatStoryContent

SpecBlocks == InitBlocks /\ [][NextBlocks]_vars

\* the nesting depth after each prefix of the text never drops below 0 and
\* ends at 0
RECURSIVE Depth(_, _)
Depth(t, n) ==
    IF n = 0 THEN 0
    ELSE Depth(t, n - 1) + (CASE t[n].kw = "if" -> 1 [] t[n].kw = "/if" -> -1 [] OTHER -> 0)

Balanced(t) == /\ \A n \in 1..Len(t) : Depth(t, n) >= 0
               /\ Depth(t, Len(t)) = 0

\* the text with every block resolved: a token other than {if:..} and {/if}
\* stays iff the predicates of all the blocks open around it (enclosing) hold
RECURSIVE Resolved(_, _, _, _)
Resolved(t, state, i, enclosing) ==
    IF i > Len(t) THEN <<>>
    ELSE CASE t[i].kw = "if" ->
                Resolved(t, state, i + 1, Append(enclosing, Predicate(state, t[i])))
           [] t[i].kw = "/if" ->
                Resolved(t, state, i + 1, SubSeq(enclosing, 1, Len(enclosing) - 1))
           [] OTHER ->
                (IF \A k \in 1..Len(enclosing) : enclosing[k] THEN <<t[i]>> ELSE <<>>)
                \o Resolved(t, state, i + 1, enclosing)

RECURSIVE Flatten(_)
Flatten(html) == IF html = <<>> THEN <<>> ELSE Head(html) \o Flatten(Tail(html))

\* C2: for text whose {if:..} / {/if} tokens are balanced (and may nest) the
\* resolved text holds the body of each block exactly when the block's
\* predicate and those of all enclosing blocks are true, and no {if:..} or
\* {/if} token; for the engine's processVariables and for formatStoryContent.
C2_NestedBlocks ==
    Balanced(text) =>
        /\ Returned("processVariables_engine") =>
               result.value.text = Resolved(text, variables, 1, <<>>)
        /\ Returned("formatStoryContent") =>
               Flatten(result.value.html) = Resolved(text, variables, 1, <<>>)

\* C2, the engine's processVariables alone
C2_EngineBlocks ==
    Balanced(text) /\ Returned("processVariables_engine") =>
        result.value.text = Resolved(text, variables, 1, <<>>)

\* no {if:..} of the text has a {/if} behind it: every {if:..} and every
\* {/if} of the text is unmatched
NoBlock(t) == ~\E i, j \in 1..Len(t) : i < j /\ t[i].kw = "if" /\ t[j].kw = "/if"

\* C14: an unmatched token (an {if:NAME} with no closing {/if}, a {/if} with
\* no opener) appears in formatStoryContent's output as the literal text it
\* had in the input: the html of a text without any block is the text.
C14_UnmatchedLiteral ==
    Returned("formatStoryContent") /\ NoBlock(text) =>
        Flatten(result.value.html) = text

\* C14 for the unmatched tokens that the asset expression does not match:
\* {/if} and an {if:..} that spells an operator
C14_UnmatchedOperatorForms ==
    Returned("formatStoryContent") /\ NoBlock(text) =>
        /\ Len(Flatten(result.value.html)) = Len(text)
        /\ \A i \in 1..Len(text) :
               text[i].kw = "/if" \/ text[i].op # "" =>
                   Flatten(result.value.html)[i] = text[i]

(***************************************************************************)
(* formatText on plain text, character by character.  The text is a        *)
(* sequence of one-character strings; the en-dash, the em-dash and the     *)
(* ellipsis character are written "[en-dash]", "[em-dash]", "[ellipsis]".  *)
(***************************************************************************)
\* String.prototype.replace(/pat/g, rep): the matches are taken left to
\* right and do not overlap
RECURSIVE ReplaceAll(_, _, _)
ReplaceAll(s, pat, rep) ==
    IF Len(s) < Len(pat) THEN s
    ELSE IF SubSeq(s, 1, Len(pat)) = pat
         THEN <<rep>> \o ReplaceAll(SubSeq(s, Len(pat) + 1, Len(s)), pat, rep)
         ELSE <<Head(s)>> \o ReplaceAll(Tail(s), pat, rep)

\* the replacements of formatText on text without *, _ and ": `--`, then
\* `---`, then `...`
formatText_plain(s) ==
    ReplaceAll(ReplaceAll(ReplaceAll(s, <<"-", "-">>, "[en-dash]"),
                          <<"-", "-", "-">>, "[em-dash]"),
               <<".", ".", ".">>, "[ellipsis]")

MaxFormatChars == 6

FormatChars == {"-", ".", "a"}

FormatText == Return("formatText", formatText_plain(text))

InitFormat == /\ pc = "input"
              /\ text \in SeqsUpTo(FormatChars, MaxFormatChars)
              /\ variables = EmptyState
              /\ result = NoResult
              /\ EditorIdle /\ PlayerIdle

NextFormat == FormatText

SpecFormat == InitFormat /\ [][NextFormat]_vars

\* C17: formatText converts every triple hyphen --- to an em-dash, every
\* remaining double hyphen -- to an en-dash and every ... to the ellipsis
\* character.
C17_Dashes ==
    Returned("formatText") =>
        result.value =
            ReplaceAll(ReplaceAll(ReplaceAll(text, <<"-", "-", "-">>, "[em-dash]"),
                                  <<"-", "-">>, "[en-dash]"),
                       <<".", ".", ".">>, "[ellipsis]")

\* what formatText does for `--` and `...`: on text without a triple hyphen
\* the result is as C17 says; an em-dash never comes out
C17_NoEmDash ==
    Returned("formatText") =>
        /\ \A i \in 1..Len(result.value) : result.value[i] # "[em-dash]"
        /\ (~\E i \in 1..(Len(text) - 2) : SubSeq(text, i, i + 2) = <<"-", "-", "-">>)
             => result.value =
                    ReplaceAll(ReplaceAll(text, <<"-", "-">>, "[en-dash]"),
                               <<".", ".", ".">>, "[ellipsis]")

(***************************************************************************)
(* Asset-reference scanning on pages of directives and asset spans.        *)
(***************************************************************************)
MaxSpanTokens == 2

SpanAlphabet ==
    {SetTok("x", "5"), AddTok("x", ""), AddTok("x", "5"), SubTok("x", ""),
     IfTok("hasKey", "", ""), IfTok("x", ">=", "5"), EndIf,
     Music("theme.mp3", FALSE), Music("theme", FALSE), Music("theme.mp3", TRUE),
     Sfx("theme.mp3"), Sfx("theme"), Ambient("rain.mp3", FALSE), Ambient("rain.mp3", TRUE),
     Stop("music"), Goto("2a"),
     Asset("cave.png", ""), Asset("cave", "small"), Asset("rain.mp3", "loop"),
     Asset("setting.png", ""), Asset("stopwatch", "small"),
     Txt("X")}

\* the asset library of the editor, in the order of Object.keys(assets)
EditorAssets == <<"cave.png", "setting.png", "stopwatch.webp", "rain.mp3">>

ParseAssetReferences ==
    Return("parseAssetReferences", parseAssetReferences(text))

\* the story has one page, whose content is the text
FindUnusedAssets ==
    Return("findUnusedAssets", findUnusedAssets(EditorAssets, <<text>>))

\* the missing-asset scan of validateStory over one page's content
ExtractAssetReferences ==
    Return("extractAssetReferences", extractAssetReferences(text))

MarkAssets == Return("markAssets", markAssets(text))

InitSpans == /\ pc = "input"
             /\ text \in SeqsUpTo(SpanAlphabet, MaxSpanTokens)
             /\ variables = EmptyState
             /\ result = NoResult
             /\ EditorIdle /\ PlayerIdle

NextSpans == \/ ExtractAssetReferences
             \/ MarkAssets
             \/ ParseAssetReferences
             \/ FindUnusedAssets
             \/ Return("parseAudioCommands", parseAudioCommands(text))

SpecSpans == InitSpans /\ [][NextSpans]_vars

\* the keywords of the directive forms; no asset of the model is named so
Keywords == {"set", "add", "sub", "if", "music", "sfx", "ambient", "goto", "stop"}

IsDirective(tok) == tok.kw \in Keywords \/ tok.kw = "/if"

\* C3: no token beginning with {set: {add: {sub: {if: {music: {sfx:
\* {ambient: {goto: or {stop:, and no {/if}, is returned by the missing-asset
\* scan (extractAssetReferences) or replaced by a placeholder in markAssets.
C3_DirectivesAreNoAssets ==
    /\ Returned("extractAssetReferences") =>
           \A i \in 1..Len(result.value) :
               result.value[i] \notin Keywords \cup {"/if"}
    /\ Returned("markAssets") =>
           \A i \in 1..Len(text) :
               IsDirective(text[i]) => result.value[i] = text[i]

\* C15: a token {NAME} or {NAME:SIZE} whose NAME is no keyword followed by
\* ':' and is not '/if' is recognised as an asset reference by
\* parseAssetReferences, also when NAME merely begins with the letters of a
\* keyword ({setting.png}, {stopwatch:small}), and an asset referenced this
\* way is never reported as unused by findUnusedAssets.
C15_AssetsRecognised ==
    /\ Returned("parseAssetReferences") =>
           \A i \in 1..Len(text) :
               text[i].kw = "asset" =>
                   \E k \in 1..Len(result.value) :
                       result.value[k] = [filename |-> text[i].a, size |-> text[i].v]
    /\ Returned("findUnusedAssets") =>
           \A i \in 1..Len(text), k \in 1..Len(result.value) :
               text[i].kw = "asset" =>
                   /\ result.value[k] # text[i].a
                   /\ BaseName(result.value[k]) # text[i].a

\* C15 for the names that do not begin with the letters of a keyword
C15_OtherNames ==
    /\ Returned("parseAssetReferences") =>
           \A i \in 1..Len(text) :
               /\ text[i].kw = "asset"
               /\ ~\E cmd \in AssetCommands : StartsWith(text[i].a, cmd)
               => \E k \in 1..Len(result.value) :
                       result.value[k] = [filename |-> text[i].a, size |-> text[i].v]
    /\ Returned("findUnusedAssets") =>
           \A i \in 1..Len(text), k \in 1..Len(result.value) :
               /\ text[i].kw = "asset"
               /\ ~\E cmd \in AssetCommands : StartsWith(text[i].a, cmd)
               => /\ result.value[k] # text[i].a
                  /\ BaseName(result.value[k]) # text[i].a

\* C16: parseAudioCommands reports {ambient:FILE}, with no :loop suffix, as
\* an ambient command for FILE with loop = true, as it does for the legacy
\* bare form {FILE:loop}.
C16_AmbientWithoutLoop ==
    Returned("parseAudioCommands") =>
        \A i \in 1..Len(text) :
            \/ text[i].kw = "ambient"
            \/ text[i].kw = "asset" /\ text[i].v = "loop"
            => \E k \in 1..Len(result.value) :
                   /\ result.value[k].type = "ambient"
                   /\ result.value[k].file = text[i].a
                   /\ result.value[k].loop
                   /\ result.value[k].fullMatch = text[i]

\* C16 for the forms that end in :loop: {ambient:FILE:loop} and {FILE:loop}
C16_LoopForms ==
    Returned("parseAudioCommands") =>
        \A i \in 1..Len(text) :
            \/ text[i].kw = "ambient" /\ text[i].lp
            \/ text[i].kw = "asset" /\ text[i].v = "loop"
            => \E k \in 1..Len(result.value) :
                   /\ result.value[k].type = "ambient"
                   /\ result.value[k].file = text[i].a
                   /\ result.value[k].loop
                   /\ result.value[k].fullMatch = text[i]

(***************************************************************************)
(* Page ids and the editor's page collection.                              *)
(*                                                                         *)
(* A page id is the string `<number><path>`.  pages is a function from the *)
(* ids of the collection to Page records; a choice without goto has        *)
(* goto = "" (the code reads it with `choice.goto || ...`).                *)
(***************************************************************************)
Letters == <<"a", "b", "c", "d", "e">>

\* `${num}${path}`
IdString(num, path) == ToString(num) \o path

\* Array.prototype.join('') of letters
RECURSIVE Join(_)
Join(letters) == IF letters = <<>> THEN "" ELSE Head(letters) \o Join(Tail(letters))

\* the page numbers and the lengths of the paths of the model
MaxPageNumber == 4
MaxPath == 2

PathsUpTo(n) == UNION {[1..k -> {"a", "b"}] : k \in 0..n}

Paths == {Join(letters) : letters \in PathsUpTo(MaxPath)}

\* path.split('').filter(c => c)
Split(path) == CHOOSE letters \in PathsUpTo(MaxPath) : Join(letters) = path

\* the ids the model can tell apart, parsed
ParsedIds == {[num |-> n, path |-> p] : n \in 1..MaxPageNumber, p \in Paths}

\* parsePageId: null (here NoId) when the string is no page id
NoId == [num |-> 0, path |-> ""]

parsePageId(id) ==
    IF \E parsed \in ParsedIds : IdString(parsed.num, parsed.path) = id
    THEN CHOOSE parsed \in ParsedIds : IdString(parsed.num, parsed.path) = id
    ELSE NoId

\* 'abcde'.slice(0, choiceCount): how many letters it keeps
SliceEnd(choiceCount) ==
    IF choiceCount < 0 THEN (IF 5 + choiceCount < 0 THEN 0 ELSE 5 + choiceCount)
    ELSE IF choiceCount > 5 THEN 5
    ELSE choiceCount

\* the children numbered like the page itself
getChildIds_same(pageId, choiceCount) ==
    LET parsed == parsePageId(pageId) IN
    IF parsed = NoId THEN <<>>
    ELSE [k \in 1..SliceEnd(choiceCount) |->
             [letter |-> Letters[k],
              childId |-> IdString(parsed.num, parsed.path \o Letters[k])]]

\* getChildIds(pageId, choiceCount) as the sequence of its entries
getChildIds(pageId, choiceCount) ==
    LET parsed == parsePageId(pageId) IN
    IF parsed = NoId THEN <<>>
    ELSE [k \in 1..SliceEnd(choiceCount) |->
             [letter |-> Letters[k],
              childId |-> IdString(parsed.num + 1, parsed.path \o Letters[k])]]

Has(pgs, id) == id \in DOMAIN pgs

Choice(letter, label, goto) == [letter |-> letter, text |-> label, goto |-> goto]

\* page.choices.find(c => c.letter === letter): the first such choice, or none
FindChoice(page, letter) ==
    LET hit == SelectSeq(page.choices, LAMBDA c : c.letter = letter) IN
    IF hit = <<>> THEN Choice("", "", "") ELSE Head(hit)

\* Object.keys(pages): integer-like keys in ascending order, then the others
\* in insertion order (the order of KeyOrder)
KeyOrder == <<"1", "2", "3", "2a", "2b", "3a">>

ObjectKeys(pgs) == SelectSeq(KeyOrder, LAMBDA id : Has(pgs, id))

(***************************************************************************)
(* editor/pages.ts buildPageTree.  The tree is kept flattened: a node      *)
(* followed by the flattened subtrees of its children, which is the order  *)
(* flattenTree gives.                                                      *)
(***************************************************************************)
TreeNode(id, depth, isOrphan, isDeadEnd) ==
    [id |-> id, depth |-> depth, isOrphan |-> isOrphan, isDeadEnd |-> isDeadEnd]

\* the ids buildNode tries as children of id, in order
TreeTargets(pgs, id) ==
    LET page == pgs[id] IN
    IF page.hasChoices /\ ~page.isEnding
    THEN LET childIds == getChildIds(id, IF Len(page.choices) # 0
                                         THEN Len(page.choices) ELSE 2)
             target(k) == LET choice == FindChoice(page, childIds[k].letter) IN
                          IF choice.goto # "" THEN choice.goto ELSE childIds[k].childId
         IN  SelectSeq([k \in 1..Len(childIds) |-> target(k)], LAMBDA t : Has(pgs, t))
    ELSE IF ~page.isEnding
    THEN LET parsed == parsePageId(id) IN
         IF parsed # NoId /\ Has(pgs, IdString(parsed.num + 1, parsed.path))
         THEN <<IdString(parsed.num + 1, parsed.path)>>
         ELSE <<>>
    ELSE <<>>

\* buildNode(id, depth) under the visited set so far, and the loop over its
\* targets; the result is the visited set, the flattened subtree (empty for
\* null) and the number of children pushed
RECURSIVE buildNode(_, _, _, _), buildChildren(_, _, _, _)
buildChildren(pgs, targets, depth, acc) ==
    IF targets = <<>> THEN acc
    ELSE LET child == buildNode(pgs, Head(targets), depth, acc.visited) IN
         buildChildren(pgs, Tail(targets), depth,
                       [visited  |-> child.visited,
                        flat     |-> acc.flat \o child.flat,
                        children |-> acc.children + (IF child.flat # <<>> THEN 1 ELSE 0)])

buildNode(pgs, id, depth, visited) ==
    IF ~Has(pgs, id) \/ id \in visited
    THEN [visited |-> visited, flat |-> <<>>]
    ELSE LET sub == buildChildren(pgs, TreeTargets(pgs, id), depth + 1,
                                  [visited |-> visited \cup {id}, flat |-> <<>>,
                                   children |-> 0])
             page == pgs[id]
             isDeadEnd == ~page.isEnding /\ sub.children = 0 /\ ~page.hasChoices
         IN  [visited |-> sub.visited,
              flat |-> <<TreeNode(id, depth, FALSE, isDeadEnd)>> \o sub.flat]

\* the flattened tree: the nodes under page 1, then one node per orphan
buildPageTree(pgs) ==
    LET root    == buildNode(pgs, "1", 0, {})
        orphans == SelectSeq(ObjectKeys(pgs), LAMBDA id : id \notin root.visited)
    IN  root.flat \o [k \in 1..Len(orphans) |-> TreeNode(orphans[k], 0, TRUE, FALSE)]

(***************************************************************************)
(* editor/graph.ts buildGraphData.                                         *)
(***************************************************************************)
\* what the loop body pushes on the queue for page `current`
GraphTargets(pgs, current) ==
    LET page   == pgs[current]
        parsed == parsePageId(current)
    IN  IF page.hasChoices /\ ~page.isEnding
        THEN IF parsed = NoId THEN <<>>
             ELSE LET target(k) ==
                          IF page.choices[k].goto # "" THEN page.choices[k].goto
                          ELSE IdString(parsed.num + 1, parsed.path \o page.choices[k].letter)
                  IN  SelectSeq([k \in 1..Len(page.choices) |-> target(k)],
                                LAMBDA t : Has(pgs, t))
        ELSE IF ~page.isEnding /\ parsed # NoId
                /\ Has(pgs, IdString(parsed.num + 1, parsed.path))
        THEN <<IdString(parsed.num + 1, parsed.path)>>
        ELSE <<>>

\* while (queue.length > 0)
RECURSIVE GraphReachable(_, _, _)
GraphReachable(pgs, queue, reachable) ==
    IF queue = <<>> THEN reachable
    ELSE LET current == Head(queue) IN
         IF current \in reachable \/ ~Has(pgs, current)
         THEN GraphReachable(pgs, Tail(queue), reachable)
         ELSE GraphReachable(pgs, Tail(queue) \o GraphTargets(pgs, current),
                             reachable \cup {current})

NodeType(page, isReachable) ==
    IF page.isEnding THEN "ending"
    ELSE IF page.hasChoices THEN "choice"
    ELSE IF ~isReachable THEN "orphan"
    ELSE "normal"

\* the edges pushed for page id
GraphEdges(pgs, id) ==
    LET page   == pgs[id]
        parsed == parsePageId(id)
    IN  IF page.isEnding \/ parsed = NoId THEN <<>>
        ELSE IF page.hasChoices
        THEN LET labelled == SelectSeq(page.choices, LAMBDA c : c.text # "")
                 edge(c)  == [source |-> id,
                              target |-> IF c.goto # "" THEN c.goto
                                         ELSE IdString(parsed.num + 1, parsed.path \o c.letter),
                              label  |-> c.letter]
             IN  SelectSeq([k \in 1..Len(labelled) |-> edge(labelled[k])],
                           LAMBDA e : Has(pgs, e.target))
        ELSE IF Has(pgs, IdString(parsed.num + 1, parsed.path))
        THEN <<[source |-> id, target |-> IdString(parsed.num + 1, parsed.path),
                label |-> ""]>>
        ELSE <<>>

RECURSIVE ConcatAll(_)
ConcatAll(seqs) == IF seqs = <<>> THEN <<>> ELSE Head(seqs) \o ConcatAll(Tail(seqs))

buildGraphData(pgs) ==
    LET reachable == GraphReachable(pgs, <<"1">>, {})
        ids       == ObjectKeys(pgs)
    IN  [reachable |-> reachable,
         nodes |-> [k \in 1..Len(ids) |->
                       [id |-> ids[k], label |-> ids[k],
                        type |-> NodeType(pgs[ids[k]], ids[k] \in reachable)]],
         edges |-> ConcatAll([k \in 1..Len(ids) |-> GraphEdges(pgs, ids[k])])]

(***************************************************************************)
(* editor/pages.ts validateStory.                                          *)
(***************************************************************************)
\* a ValidationResult; pageId is "" when the result names no page
ValidationResult(type, message, pageId, detail) ==
    [type |-> type, message |-> message, pageId |-> pageId, detail |-> detail]

\* page.content.trim() is empty
Blank(content) == \A k \in 1..Len(content) : content[k] \in {Txt(" "), ParagraphBreak}

AssetExtensions == {"", ".png", ".jpg", ".jpeg", ".gif", ".webp", ".mp4", ".webm", ".mp3", ".wav"}

\* the missing choice pages of page id
MissingTargets(pgs, id) ==
    LET page == pgs[id] IN
    IF page.hasChoices /\ ~page.isEnding
    THEN LET childIds == getChildIds(id, IF Len(page.choices) # 0
                                         THEN Len(page.choices) ELSE 2)
             entry(k) == LET choice == FindChoice(page, childIds[k].letter) IN
                         [letter |-> childIds[k].letter,
                          found  |-> choice.letter # "",
                          target |-> IF choice.goto # "" THEN choice.goto
                                     ELSE childIds[k].childId]
             missing  == SelectSeq([k \in 1..Len(childIds) |-> entry(k)],
                                   LAMBDA e : e.found /\ ~Has(pgs, e.target))
         IN  [k \in 1..Len(missing) |->
                 ValidationResult("info", "Choice leads to missing page", id,
                                  <<missing[k].letter, missing[k].target>>)]
    ELSE <<>>

MissingAssets(pgs, assets, id) ==
    LET assetRefs == extractAssetReferences(pgs[id].content)
        missing   == SelectSeq(assetRefs,
                         LAMBDA assetName : ~\E ext \in AssetExtensions :
                                                (assetName \o ext) \in assets)
    IN  [k \in 1..Len(missing) |->
            ValidationResult("warning", "Missing asset", id, <<missing[k]>>)]

validateStory(pgs, assets) ==
    LET pageIds  == ObjectKeys(pgs)
        flatTree == buildPageTree(pgs)
        empty    == SelectSeq(pageIds, LAMBDA id : Blank(pgs[id].content) /\ ~pgs[id].isEnding)
        orphans  == SelectSeq(flatTree, LAMBDA node : node.isOrphan)
        deadEnds == SelectSeq(flatTree, LAMBDA node : node.isDeadEnd)
    IN  [k \in 1..Len(empty) |->
            ValidationResult("warning", "Page has no content", empty[k], <<>>)]
        \o [k \in 1..Len(orphans) |->
            ValidationResult("warning", "Page is not reachable from the start",
                             orphans[k].id, <<>>)]
        \o [k \in 1..Len(deadEnds) |->
            ValidationResult("warning", "Page has no choices and is not marked as ending",
                             deadEnds[k].id, <<>>)]
        \o ConcatAll([k \in 1..Len(pageIds) |-> MissingAssets(pgs, assets, pageIds[k])])
        \o ConcatAll([k \in 1..Len(pageIds) |-> MissingTargets(pgs, pageIds[k])])
        \o (IF ~Has(pgs, "1")
            THEN <<ValidationResult("error", "Story is missing page 1 (starting page)",
                                    "", <<>>)>>
            ELSE <<>>)

(***************************************************************************)
(* The editor's graph functions on page collections.                       *)
(***************************************************************************)
MaxPages == 3

Page(content, hasChoices, isEnding, choices) ==
    [content |-> content, hasChoices |-> hasChoices, isEnding |-> isEnding,
     choices |-> choices]

\* pages as the editor, the importer and the legacy conversion produce them
PageShapes ==
    {Page(<<Txt("X")>>, FALSE, FALSE, <<>>),
     Page(<<>>, FALSE, TRUE, <<>>),
     Page(<<Asset("cave", "")>>, TRUE, FALSE,
          <<Choice("a", "Left", ""), Choice("b", "Right", "")>>),
     Page(<<Txt("X")>>, TRUE, FALSE, <<Choice("b", "Right", "")>>),
     Page(<<>>, TRUE, FALSE, <<Choice("a", "Back", "1"), Choice("b", "", "")>>),
     Page(<<Asset("ghost", "")>>, TRUE, FALSE,
          <<Choice("a", "Skip", "3"), Choice("b", "Next", "2")>>),
     Page(<<Txt("X")>>, TRUE, TRUE,
          <<Choice("a", "Left", ""), Choice("b", "Right", "")>>),
     Page(<<Txt(" ")>>, TRUE, FALSE, <<>>)}

PageIds == {KeyOrder[k] : k \in 1..Len(KeyOrder)}

PageCollections ==
    UNION {[ids -> PageShapes] : ids \in {S \in SUBSET PageIds : Cardinality(S) <= MaxPages}}

StoryAssets == {"cave.png"}

BuildPageTree  == Return("buildPageTree", buildPageTree(pages))
BuildGraphData == Return("buildGraphData", buildGraphData(pages))
ValidateStory  == Return("validateStory", validateStory(pages, StoryAssets))

InitGraph == /\ pc = "input"
             /\ pages \in PageCollections
             /\ editorState = <<>> /\ editorElements = <<>>
             /\ TextIdle /\ PlayerIdle

NextGraph == BuildPageTree \/ BuildGraphData \/ ValidateStory

SpecGraph == InitGraph /\ [][NextGraph]_vars

\* the successors the graph rule gives a page: the effective target of each
\* choice in its list, or the continuation
Successors(pgs, id) ==
    LET page   == pgs[id]
        parsed == parsePageId(id)
    IN  IF page.hasChoices /\ ~page.isEnding
        THEN {t \in DOMAIN pgs : \E k \in 1..Len(page.choices) :
                 t = IF page.choices[k].goto # "" THEN page.choices[k].goto
                     ELSE IdString(parsed.num + 1, parsed.path \o page.choices[k].letter)}
        ELSE IF ~page.isEnding
        THEN {t \in DOMAIN pgs : t = IdString(parsed.num + 1, parsed.path)}
        ELSE {}

RECURSIVE Closure(_, _)
Closure(pgs, S) ==
    LET next == S \cup UNION {Successors(pgs, id) : id \in S} IN
    IF next = S THEN S ELSE Closure(pgs, next)

\* the least set that contains page 1 when it exists and is closed under
\* the successors
Reachable(pgs) == Closure(pgs, {"1"} \cap DOMAIN pgs)

NonOrphans(flatTree) ==
    {flatTree[k].id : k \in {j \in 1..Len(flatTree) : ~flatTree[j].isOrphan}}

NotReachableWarnings(results) ==
    {results[k].pageId : k \in {j \in 1..Len(results) :
        results[j].message = "Page is not reachable from the start"}}

\* C4: the pages buildPageTree marks non-orphan and the reachable set of
\* buildGraphData both equal the least set that contains page 1 and is closed
\* under choice targets (of the choices list) and continuations, and
\* validateStory warns 'not reachable' for exactly the pages outside it.
C4_ReachableSets ==
    /\ Returned("buildPageTree") => NonOrphans(result.value) = Reachable(pages)
    /\ Returned("buildGraphData") => result.value.reachable = Reachable(pages)
    /\ Returned("validateStory") =>
           NotReachableWarnings(result.value) = DOMAIN pages \ Reachable(pages)

\* the part of C4 that is about buildGraphData alone
C4_GraphReachable ==
    Returned("buildGraphData") => result.value.reachable = Reachable(pages)

\* C5: buildGraphData types every page unreachable from page 1 'orphan',
\* whatever its flags, and types a reachable page with isEnding 'ending' even
\* when hasChoices is set too.
C5_NodeTypes ==
    Returned("buildGraphData") =>
        \A k \in 1..Len(result.value.nodes) :
            LET node == result.value.nodes[k] IN
            /\ node.id \notin Reachable(pages) => node.type = "orphan"
            /\ node.id \in Reachable(pages) /\ pages[node.id].isEnding
                   => node.type = "ending"

\* the pages a diagnostic with this message is emitted for
WarnedPages(results, message) ==
    {results[k].pageId : k \in {j \in 1..Len(results) : results[j].message = message}}

\* the continuation of a page: number + 1, same path
Continuation(id) == IdString(parsePageId(id).num + 1, parsePageId(id).path)

\* C12: validateStory emits the dead-end warning for a page exactly when the
\* page is not an ending, has hasChoices false and its continuation page
\* (number + 1, same path) is not in the collection.
C12_DeadEndWarnings ==
    Returned("validateStory") =>
        WarnedPages(result.value, "Page has no choices and is not marked as ending")
            = {id \in DOMAIN pages :
                  /\ ~pages[id].isEnding
                  /\ ~pages[id].hasChoices
                  /\ Continuation(id) \notin DOMAIN pages}

\* the part of C12 the code keeps: a page with the dead-end warning is a
\* page reached from page 1 that is no ending and has hasChoices false
C12_WarnedAreContinuePages ==
    Returned("validateStory") =>
        \A id \in WarnedPages(result.value,
                              "Page has no choices and is not marked as ending") :
            ~pages[id].isEnding /\ ~pages[id].hasChoices

\* C13: for every page with hasChoices that is no ending and every choice of
\* its choices list, validateStory emits an info diagnostic naming the
\* choice's effective target (its goto, else number + 1 / path + letter)
\* whenever that target is not in the collection.
C13_MissingTargetInfo ==
    Returned("validateStory") =>
        \A id \in DOMAIN pages :
            pages[id].hasChoices /\ ~pages[id].isEnding =>
                \A k \in 1..Len(pages[id].choices) :
                    LET choice == pages[id].choices[k]
                        target == IF choice.goto # "" THEN choice.goto
                                  ELSE IdString(parsePageId(id).num + 1,
                                                parsePageId(id).path \o choice.letter)
                    IN  target \notin DOMAIN pages =>
                            \E j \in 1..Len(result.value) :
                                /\ result.value[j].type = "info"
                                /\ result.value[j].pageId = id
                                /\ result.value[j].detail = <<choice.letter, target>>

\* C13 for the pages whose choices carry the first letters a, b, .. in order
C13_LetteredInOrder ==
    Returned("validateStory") =>
        \A id \in DOMAIN pages :
            /\ pages[id].hasChoices /\ ~pages[id].isEnding
            /\ \A k \in 1..Len(pages[id].choices) : pages[id].choices[k].letter = Letters[k]
            => \A k \in 1..Len(pages[id].choices) :
                    LET choice == pages[id].choices[k]
                        target == IF choice.goto # "" THEN choice.goto
                                  ELSE IdString(parsePageId(id).num + 1,
                                                parsePageId(id).path \o choice.letter)
                    IN  target \notin DOMAIN pages =>
                            \E j \in 1..Len(result.value) :
                                /\ result.value[j].type = "info"
                                /\ result.value[j].pageId = id
                                /\ result.value[j].detail = <<choice.letter, target>>

(***************************************************************************)
(* The player: engine/assets.ts, engine/audio.ts, engine/player.ts,        *)
(* engine/saves.ts, engine/variables.ts and engine/main.ts.                *)
(*                                                                         *)
(* A choice line `a) [GOTO] LABEL` of a page file is one token: a holds    *)
(* the letter, v the goto and op the label.                                *)
(***************************************************************************)
ChoiceLine(letter, goto, label) == Tok("choice", letter, label, goto, FALSE)

\* null and '' of the engine's string-or-null values
Null == ""

\* shared/format.ts extractChoices: the choices in file order, and the text
\* without the choice lines, trimmed
IsSpace(tok) == tok \in {Txt(" "), ParagraphBreak}

RECURSIVE TrimStart(_)
TrimStart(t) == IF t # <<>> /\ IsSpace(Head(t)) THEN TrimStart(Tail(t)) ELSE t

RECURSIVE TrimEnd(_)
TrimEnd(t) == IF t # <<>> /\ IsSpace(t[Len(t)]) THEN TrimEnd(SubSeq(t, 1, Len(t) - 1)) ELSE t

extractChoices(t) ==
    LET lines == SelectSeq(t, LAMBDA tok : tok.kw = "choice") IN
    [storyText |-> TrimEnd(TrimStart(SelectSeq(t, LAMBDA tok : tok.kw # "choice"))),
     choices   |-> [k \in 1..Len(lines) |->
                       Choice(lines[k].a, lines[k].op, lines[k].v)]]

(***************************************************************************)
(* engine/assets.ts: the asset manager of a story opened as a folder.      *)
(* assetsDir is the set of file names in the story's assets directory,     *)
(* blobUrls the cache from asset names to blob urls.                       *)
(***************************************************************************)
TryExtensions == <<".png", ".jpg", ".jpeg", ".gif", ".webp", ".svg",
                   ".mp4", ".webm", ".mov", ".mp3", ".wav", ".ogg", ".flac">>

\* tryWithExtensions: the first extension that names a file, or null
tryWithExtensions(dir, baseName) ==
    LET hit == SelectSeq(TryExtensions, LAMBDA ext : (baseName \o ext) \in dir) IN
    IF hit = <<>> THEN Null ELSE baseName \o Head(hit)

createObjectURL(file) == "blob:" \o file

\* getAssetUrl: the url ('' when no file is found) and the manager after it
getAssetUrl(manager, assetName) ==
    IF assetName \in DOMAIN manager.blobUrls
    THEN [url |-> manager.blobUrls[assetName], manager |-> manager]
    ELSE LET blob == IF assetName \in manager.assetsDir THEN assetName
                     ELSE tryWithExtensions(manager.assetsDir, assetName)
         IN  IF blob = Null
             THEN [url |-> "", manager |-> manager]
             ELSE [url |-> createObjectURL(blob),
                   manager |-> [manager EXCEPT !.blobUrls =
                                   (assetName :> createObjectURL(blob)) @@ @]]

isVideo(name) == name \in {"intro.mp4"}
isAudio(name) == name \in {"theme.mp3", "rain.mp3", "door.wav"}

\* processAssets over the spans of the html, in order; a span whose asset
\* has no url is removed, an audio asset too
\* what replaces the span of asset m once its url is known
AssetHtml(m, url) ==
    IF url = "" \/ (~isVideo(m.name) /\ isAudio(m.name)) THEN <<>>
    ELSE IF isVideo(m.name) THEN <<Tok("video", url, "", m.size, FALSE)>>
    ELSE <<Tok("img", url, "", m.size, FALSE)>>

Prepend(toks, rest) == [rest EXCEPT !.html = toks \o @]

RECURSIVE processAssets(_, _), processAssets_match(_, _, _, _), processAssets_url(_, _, _)
processAssets(para, manager) ==
    IF para = <<>> THEN [html |-> <<>>, manager |-> manager]
    ELSE processAssets_match(Head(para), AssetMatch(Head(para)), Tail(para), manager)

processAssets_match(tok, m, rest, manager) ==
    IF ~m.hit \/ m.name = "/if"
       \/ \E prefix \in CommandPrefixes : StartsWith(m.name, prefix)
    THEN Prepend(<<tok>>, processAssets(rest, manager))
    ELSE processAssets_url(m, rest, getAssetUrl(manager, m.name))

processAssets_url(m, rest, got) ==
    Prepend(AssetHtml(m, got.url), processAssets(rest, got.manager))

RECURSIVE processAssetsHtml(_, _), processAssetsHtml_rest(_, _)
processAssetsHtml(html, manager) ==
    IF html = <<>> THEN [html |-> <<>>, manager |-> manager]
    ELSE processAssetsHtml_rest(processAssets(Head(html), manager), Tail(html))

processAssetsHtml_rest(first, rest) ==
    Prepend(<<first.html>>, processAssetsHtml(rest, first.manager))

(***************************************************************************)
(* DOMPurify.sanitize under an allow-list of tags and attributes: an       *)
(* element outside the list is removed (its text content kept), an         *)
(* attribute outside the list is dropped.                                  *)
(***************************************************************************)
StoryTags  == {"p", "br", "img", "video", "strong", "em", "b", "i", "blockquote", "mark"}
StoryAttrs == {"src", "alt", "class", "controls", "preload"}

\* the markup the plain-text runs of the model can carry
SanitizeRun(run, tags, attrs) ==
    CASE run = "<img onerror>" ->
             IF "img" \notin tags THEN ""
             ELSE IF "onerror" \in attrs THEN run ELSE "<img>"
      [] run = "<strong>bold</strong>" -> IF "strong" \in tags THEN run ELSE "bold"
      [] OTHER -> run

SanitizeParagraph(para, tags, attrs) ==
    LET kept == SelectSeq(para, LAMBDA tok :
                    CASE tok.kw = "placeholder" -> "span" \in tags
                      [] tok.kw \in {"img", "video"} -> tok.kw \in tags
                      [] OTHER -> TRUE)
    IN  [k \in 1..Len(kept) |->
            IF kept[k].kw = "txt" THEN Txt(SanitizeRun(kept[k].a, tags, attrs))
            ELSE kept[k]]

sanitize(html, tags, attrs) ==
    [k \in 1..Len(html) |-> SanitizeParagraph(html[k], tags, attrs)]

(***************************************************************************)
(* engine/audio.ts.  An audio element is its src and whether it is paused. *)
(***************************************************************************)
AudioElement(src, paused, loop) == [src |-> src, paused |-> paused, loop |-> loop]

\* createAudioManager followed by initAudio
createAudioManager ==
    [musicElement   |-> AudioElement("", TRUE, FALSE),
     sfxElements    |-> <<>>,
     ambientElement |-> AudioElement("", TRUE, TRUE),
     currentMusic   |-> Null,
     currentAmbient |-> Null,
     muted          |-> FALSE]

stopMusic(manager) ==
    [manager EXCEPT !.musicElement.paused = TRUE, !.currentMusic = Null]

stopAmbient(manager) ==
    [manager EXCEPT !.ambientElement.paused = TRUE, !.currentAmbient = Null]

stopAllSfx(manager) == [manager EXCEPT !.sfxElements = <<>>]

stopAllAudio(manager) == stopAllSfx(stopAmbient(stopMusic(manager)))

\* playMusic up to its `await getAssetUrl`: the manager, and whether the
\* call goes on to fetch the url
playMusic_begin(manager, file) ==
    IF manager.currentMusic # file
    THEN [manager |-> stopMusic(manager), goesOn |-> TRUE]
    ELSE [manager |-> manager, goesOn |-> manager.musicElement.paused]

\* playMusic from the url on; play() starts the element
playMusic_end(manager, url, file, loop) ==
    IF url = "" THEN manager
    ELSE [manager EXCEPT !.musicElement = AudioElement(url, FALSE, loop),
                         !.currentMusic = file]

playAmbient_begin(manager, file) ==
    IF manager.currentAmbient # file
    THEN [manager |-> stopAmbient(manager), goesOn |-> TRUE]
    ELSE [manager |-> manager, goesOn |-> manager.ambientElement.paused]

playAmbient_end(manager, url, file) ==
    IF url = "" THEN manager
    ELSE [manager EXCEPT !.ambientElement = AudioElement(url, FALSE, TRUE),
                         !.currentAmbient = file]

playSfx_end(manager, url) ==
    IF url = "" THEN manager
    ELSE [manager EXCEPT !.sfxElements = Append(@, AudioElement(url, FALSE, FALSE))]

\* executeAudioCommand up to the first await of the command: for a stop
\* command that is all of it
executeAudioCommand_begin(command, manager) ==
    IF manager.muted THEN [manager |-> manager, goesOn |-> FALSE]
    ELSE CASE command.type = "music"   -> playMusic_begin(manager, command.file)
           [] command.type = "ambient" -> playAmbient_begin(manager, command.file)
           [] command.type = "sfx"     -> [manager |-> manager, goesOn |-> TRUE]
           [] OTHER ->
                LET m1 == IF command.file \in {"music", "all"}
                          THEN stopMusic(manager) ELSE manager
                    m2 == IF command.file \in {"ambient", "all"}
                          THEN stopAmbient(m1) ELSE m1
                    m3 == IF command.file \in {"sfx", "all"}
                          THEN stopAllSfx(m2) ELSE m2
                IN  [manager |-> m3, goesOn |-> FALSE]

\* the rest of the command, once getAssetUrl has answered
executeAudioCommand_end(command, manager, url) ==
    CASE command.type = "music"   -> playMusic_end(manager, url, command.file, command.loop)
      [] command.type = "ambient" -> playAmbient_end(manager, url, command.file)
      [] command.type = "sfx"     -> playSfx_end(manager, url)
      [] OTHER -> manager

\* executeAudioCommand with nothing else running between its awaits
executeAudioCommand_play(command, audio, got) ==
    [audio |-> executeAudioCommand_end(command, audio, got.url), assets |-> got.manager]

executeAudioCommand_url(command, begun, assets) ==
    IF begun.goesOn
    THEN executeAudioCommand_play(command, begun.manager, getAssetUrl(assets, command.file))
    ELSE [audio |-> begun.manager, assets |-> assets]

executeAudioCommand(command, audio, assets) ==
    executeAudioCommand_url(command, executeAudioCommand_begin(command, audio), assets)

\* for (const command of commands) await executeAudioCommand(...)
RECURSIVE ExecuteAll(_, _, _), ExecuteRest(_, _)
ExecuteAll(commands, audio, assets) ==
    IF commands = <<>> THEN [audio |-> audio, assets |-> assets]
    ELSE ExecuteRest(Tail(commands), executeAudioCommand(Head(commands), audio, assets))

ExecuteRest(commands, done) == ExecuteAll(commands, done.audio, done.assets)

processAudioCommands(t, audio, assets) == ExecuteAll(parseAudioCommands(t), audio, assets)

(***************************************************************************)
(* engine/player.ts and engine/saves.ts.                                   *)
(***************************************************************************)
createPlayerState ==
    [currentPage |-> 1, currentPath |-> "", choiceLog |-> <<>>,
     variables |-> EmptyState, storyFolder |-> "", isPlaying |-> FALSE]

startGame(state, page, path) ==
    [state EXCEPT !.currentPage = page, !.currentPath = path,
                  !.choiceLog = Split(path), !.isPlaying = TRUE]

makeChoice(state, letter, gotoPage) ==
    LET newLog == Append(state.choiceLog, letter)
        parsed == parsePageId(gotoPage)
    IN  IF gotoPage # "" /\ parsed # NoId
        THEN [state EXCEPT !.currentPage = parsed.num, !.currentPath = parsed.path,
                           !.choiceLog = newLog]
        ELSE [state EXCEPT !.currentPage = @ + 1, !.currentPath = @ \o letter,
                           !.choiceLog = newLog]

continueToNext(state) == [state EXCEPT !.currentPage = @ + 1]

restart(state) ==
    [state EXCEPT !.currentPage = 1, !.currentPath = "", !.choiceLog = <<>>,
                  !.variables = EmptyState]

getCurrentFilename(state) ==
    IF state.currentPage = 1 /\ state.currentPath = "" THEN "1.txt"
    ELSE IdString(state.currentPage, state.currentPath) \o ".txt"

\* the save code without the path
formatSaveCode_number(page, path) == ToString(page)

formatSaveCode(page, path) ==
    IF page = 1 /\ path = "" THEN "1" ELSE IdString(page, path)

getSaveCode(state) == formatSaveCode(state.currentPage, state.currentPath)

RECURSIVE JoinArrow(_)
JoinArrow(choices) ==
    IF Len(choices) = 1 THEN Head(choices)
    ELSE Head(choices) \o " -> " \o JoinArrow(Tail(choices))

formatChoicePath(choices) == IF choices = <<>> THEN "-" ELSE JoinArrow(choices)

\* the page codes typed into the jump box; parsePageCode gives null for the
\* ones that are no /^(\d+)([a-e]*)$/
NoCode == [page |-> 0, path |-> ""]

parsePageCode(code) ==
    LET parsed == parsePageId(code) IN
    IF parsed = NoId THEN NoCode ELSE [page |-> parsed.num, path |-> parsed.path]

jumpToPage(state, code) ==
    LET parsed == parsePageCode(code) IN
    IF parsed = NoCode THEN NoCode
    ELSE [state EXCEPT !.currentPage = parsed.page, !.currentPath = parsed.path,
                       !.choiceLog = Split(parsed.path)]

toSaveState(state) ==
    [page |-> state.currentPage, path |-> state.currentPath, variables |-> state.variables]

fromSaveState(state, save) ==
    [state EXCEPT !.currentPage = save.page, !.currentPath = save.path,
                  !.choiceLog = Split(save.path), !.variables = save.variables]

\* localStorage without an entry for the story
NoSave == [page |-> 0, path |-> "", variables |-> EmptyState]

(***************************************************************************)
(* engine/main.ts: displayPage, renderChoices, updateStatus and            *)
(* engine/variables.ts updateVariablesPanel, on the world w of the player: *)
(* its playerState, elements, storage, audioManager and assetManager.      *)
(***************************************************************************)
\* document.getElementById('variables-panel') of a page without the panel
NoPanel == [visible |-> FALSE, innerHTML |-> <<>>, present |-> FALSE]

Panel(visible, innerHTML) == [visible |-> visible, innerHTML |-> innerHTML, present |-> TRUE]

\* Object.keys(variables), in a fixed order
VarOrder == <<"x", "hasKey">>

\* formatValue: a check mark or a cross for a boolean, String(value) else
formatValue(value) ==
    CASE value.t = "boolean" -> IF value.n = 1 THEN "[check]" ELSE "[cross]"
      [] value.t = "number"  -> ToString(value.n)
      [] OTHER -> value.s

updateVariablesPanel(panel, state) ==
    LET names == SelectSeq(VarOrder, LAMBDA name : name \in Keys(state)) IN
    IF names = <<>> THEN [panel EXCEPT !.visible = FALSE]
    ELSE Panel(TRUE, [k \in 1..Len(names) |->
                         [name |-> names[k], value |-> formatValue(state[names[k]])]])

ChoiceButton(choice) ==
    [className |-> "", choice |-> choice.letter, goto |-> choice.goto,
     innerHTML |-> SanitizeRun(choice.text, {}, {})]

ContinueButton ==
    [className |-> "continue-btn", choice |-> "", goto |-> "", innerHTML |-> "Continue"]

renderChoices(choices) ==
    IF Len(choices) > 0 THEN [k \in 1..Len(choices) |-> ChoiceButton(choices[k])]
    ELSE <<ContinueButton>>

World == [playerState |-> playerState, elements |-> elements, storage |-> storage,
          audioManager |-> audioManager, assetManager |-> assetManager]

\* displayPage down to the assignment of elements.story.innerHTML; the
\* choices and the audio commands it goes on with
displayPage_story(w, pageText, newVariables, choices, final) ==
    [world |-> [w EXCEPT !.playerState.variables = newVariables,
                         !.assetManager = final.manager,
                         !.elements.story = sanitize(final.html, StoryTags, StoryAttrs)],
     choices  |-> choices,
     commands |-> parseAudioCommands(pageText)]

displayPage_choices(w, pageText, newVariables, extracted) ==
    displayPage_story(w, pageText, newVariables, extracted.choices,
        processAssetsHtml(formatStoryContent(extracted.storyText, newVariables).html,
                          w.assetManager))

displayPage_variables(w, pageText, processed) ==
    displayPage_choices(w, pageText, processed.variables, extractChoices(processed.text))

displayPage_begin(w, pageText) ==
    displayPage_variables(w, pageText,
                          processVariables_engine(pageText, w.playerState.variables))

\* displayPage after processAudioCommands
displayPage_end(w, choices) ==
    [w EXCEPT !.elements.variablesPanel =
                  IF @.present THEN updateVariablesPanel(@, w.playerState.variables) ELSE @,
              !.elements.choices = renderChoices(choices)]

\* displayPage with nothing else running between its awaits
displayPage_played(begun, played) ==
    displayPage_end([begun.world EXCEPT !.audioManager = played.audio,
                                        !.assetManager = played.assets],
                    begun.choices)

displayPage_audio(begun) ==
    displayPage_played(begun, ExecuteAll(begun.commands, begun.world.audioManager,
                                         begun.world.assetManager))

displayPage(w, pageText) == displayPage_audio(displayPage_begin(w, pageText))

updateStatus(w) ==
    [w EXCEPT !.elements.currentPageDisplay = ToString(w.playerState.currentPage),
              !.elements.saveCode = getSaveCode(w.playerState),
              !.elements.logContent = formatChoicePath(w.playerState.choiceLog)]

\* loadPage after `await displayPage(pageText)`
loadPage_end(w) == [updateStatus(w) EXCEPT !.storage = toSaveState(w.playerState)]

showEnding(w) ==
    [w EXCEPT !.elements.ending = TRUE, !.elements.choices = <<>>, !.storage = NoSave]

\* the elements of the page before a story plays
InitialElements(panel) ==
    [story |-> <<>>, choices |-> <<>>, variablesPanel |-> panel, ending |-> FALSE,
     currentPageDisplay |-> "", saveCode |-> "", logContent |-> ""]

SetWorld(w) ==
    /\ playerState' = w.playerState
    /\ elements' = w.elements
    /\ storage' = w.storage
    /\ audioManager' = w.audioManager
    /\ assetManager' = w.assetManager

(***************************************************************************)
(* displayPage, parseAudioCommands and formatStoryContent on page texts    *)
(* with audio directives, conditional blocks and markup.                   *)
(***************************************************************************)
MaxDisplayTokens == 3

DisplayAlphabet ==
    {IfTok("hasKey", "", ""), EndIf, Music("theme.mp3", FALSE), Stop("music"),
     Ambient("rain.mp3", TRUE), SetTok("hasKey", "true"),
     SetTok("x", "<img onerror>"), Txt("<img onerror>"),
     ChoiceLine("a", "", "<img onerror>")}

\* the page with and without the variables panel, the sound on or muted
DisplaySettings ==
    {[panel |-> Panel(FALSE, <<>>), muted |-> FALSE],
     [panel |-> NoPanel, muted |-> FALSE],
     [panel |-> Panel(FALSE, <<>>), muted |-> TRUE]}

StoryAssetsDir == {"theme.mp3", "rain.mp3", "door.wav"}

InitialAssets == [blobUrls |-> <<>>, assetsDir |-> StoryAssetsDir]

InitialAudio(muted) == [createAudioManager EXCEPT !.muted = muted]

DisplayPage ==
    /\ pc = "input"
    /\ pc' = "done"
    /\ result' = [fn |-> "displayPage", value |-> text]
    /\ \E w \in {displayPage(World, text)} : SetWorld(w)
    /\ UNCHANGED <<text, variables, editorVars, storyDirHandle, loads>>

ParseAudioCommands == Return("parseAudioCommands", parseAudioCommands(text))

InitDisplay ==
    /\ pc = "input"
    /\ text \in SeqsUpTo(DisplayAlphabet, MaxDisplayTokens)
    /\ variables \in {EmptyState, [EmptyState EXCEPT !["hasKey"] = Bool(TRUE)]}
    /\ result = NoResult
    /\ EditorIdle
    /\ playerState = [startGame([createPlayerState EXCEPT !.storyFolder = "story"], 1, "")
                         EXCEPT !.variables = variables]
    /\ \E settings \in DisplaySettings :
           /\ elements = InitialElements(settings.panel)
           /\ audioManager = InitialAudio(settings.muted)
    /\ assetManager = InitialAssets
    /\ storage = NoSave
    /\ storyDirHandle = <<>>
    /\ loads = <<>>

NextDisplay == DisplayPage \/ ParseAudioCommands \/ FormatStoryContent

SpecDisplay == InitDisplay /\ [][NextDisplay]_vars

\* markup the sanitizer would change is markup that did not pass it
Clean(run) == SanitizeRun(run, StoryTags, StoryAttrs) = run

\* C6: every piece of HTML with text from the page (story body, choice
\* labels, variable names and values) is sanitized before it is assigned to
\* innerHTML: no element holds page-derived markup that the sanitizer, under
\* its allow-list, would have changed.
C6_SanitizedSinks ==
    Returned("displayPage") =>
        /\ sanitize(elements.story, StoryTags, StoryAttrs) = elements.story
        /\ \A k \in 1..Len(elements.choices) : Clean(elements.choices[k].innerHTML)
        /\ \A k \in 1..Len(elements.variablesPanel.innerHTML) :
               /\ Clean(elements.variablesPanel.innerHTML[k].name)
               /\ Clean(elements.variablesPanel.innerHTML[k].value)

\* the audio directives of a text that lie in no block whose predicate is
\* false in state
LiveAudio(t, state) ==
    LET live == Resolved(t, state, 1, <<>>) IN
    {live[k] : k \in 1..Len(live)}

\* C8: an audio directive inside a conditional block whose predicate is
\* false for the page's updated variable state is not among the
\* audioCommands of formatStoryContent, and the player does not execute it:
\* what plays after the page is displayed comes from a directive outside
\* every false block.
C8_FalseBlockAudio ==
    Balanced(text) =>
        /\ Returned("formatStoryContent") =>
               \A k \in 1..Len(result.value.audioCommands) :
                   result.value.audioCommands[k].fullMatch
                       \in LiveAudio(text, result.value.variables)
        /\ Returned("displayPage") =>
               /\ audioManager.currentMusic # Null =>
                      \E tok \in LiveAudio(text, playerState.variables) :
                          musicRegex(tok) /\ tok.a = audioManager.currentMusic
               /\ audioManager.currentAmbient # Null =>
                      \E tok \in LiveAudio(text, playerState.variables) :
                          ambientRegex(tok) /\ tok.a = audioManager.currentAmbient

\* C9: parseAudioCommands lists the commands, and the player executes them,
\* in the order their directives are written: the audio after a page is
\* displayed is the audio after its commands are executed in textual order,
\* so a {stop:music} before a {music:FILE} leaves that music playing.
C9_AudioOrder ==
    /\ Returned("parseAudioCommands") => result.value = TextualAudioCommands(text)
    /\ Returned("displayPage") =>
           audioManager = ExecuteAll(TextualAudioCommands(text),
                                     InitialAudio(audioManager.muted),
                                     InitialAssets).audio

(***************************************************************************)
(* engine/main.ts as it runs: the handlers of the buttons and the          *)
(* loadPage() calls they start.  A story has been opened as a folder       *)
(* (storyDirHandle is set, storyFiles is empty).  loadPage is async: a     *)
(* call in flight is a record of loads that waits at one of its awaits,    *)
(*   "read"  for the page file (getFileHandle / getFile / text),           *)
(*   "url"   for getAssetUrl of the audio command at the head of commands, *)
(*   "play"  for play() of that command's element,                         *)
(* and the code between two awaits runs as one step.  An await that waits  *)
(* for nothing outside the program (processAssets on html without asset    *)
(* spans, getAssetUrl on a cached name) does not let another handler in.   *)
(***************************************************************************)
MaxLoads == 2

Load(stage, filename, choices, commands) ==
    [stage |-> stage, filename |-> filename, choices |-> choices, commands |-> commands]

\* processAudioCommands from the command at the head of commands up to the
\* next await that waits, or to the end of the loop ("done")
RECURSIVE RunAudio(_, _, _), RunAudio_begun(_, _, _)
RunAudio(commands, audio, assets) ==
    IF commands = <<>>
    THEN [stage |-> "done", commands |-> <<>>, audio |-> audio, assets |-> assets]
    ELSE RunAudio_begun(commands, executeAudioCommand_begin(Head(commands), audio), assets)

RunAudio_begun(commands, begun, assets) ==
    IF ~begun.goesOn THEN RunAudio(Tail(commands), begun.manager, assets)
    ELSE IF Head(commands).file \in DOMAIN assets.blobUrls
    THEN [stage |-> "play", commands |-> commands,
          audio |-> executeAudioCommand_end(Head(commands), begun.manager,
                                            assets.blobUrls[Head(commands).file]),
          assets |-> assets]
    ELSE [stage |-> "url", commands |-> commands, audio |-> begun.manager,
          assets |-> assets]

\* a load goes on from its audio loop: it waits again, or displayPage and
\* loadPage run to their end.  The world after it and the load, if it waits.
Advance_run(w, load, run) ==
    IF run.stage = "done"
    THEN [world |-> loadPage_end(displayPage_end(w, load.choices)), waits |-> <<>>]
    ELSE [world |-> w,
          waits |-> <<[load EXCEPT !.stage = run.stage, !.commands = run.commands]>>]

Advance_audio(w, load, run) ==
    Advance_run([w EXCEPT !.audioManager = run.audio, !.assetManager = run.assets],
                load, run)

Advance(w, load, commands) ==
    Advance_audio(w, load, RunAudio(commands, w.audioManager, w.assetManager))

\* loads with the load at index i replaced by waits (itself, or nothing)
Replace(i, waits) == SubSeq(loads, 1, i - 1) \o waits \o SubSeq(loads, i + 1, Len(loads))

\* the page file has been read (or is not there)
Advance_begun(load, begun) ==
    Advance(begun.world, [load EXCEPT !.choices = begun.choices], begun.commands)

loadPage_read(w, load) ==
    IF load.filename \notin DOMAIN storyDirHandle
    THEN [world |-> showEnding(w), waits |-> <<>>]
    ELSE Advance_begun(load, displayPage_begin(w, storyDirHandle[load.filename]))

ReadDone(i) ==
    /\ loads[i].stage = "read"
    /\ \E next \in {loadPage_read(World, loads[i])} :
           /\ SetWorld(next.world)
           /\ loads' = Replace(i, next.waits)
    /\ UNCHANGED <<pc, textVars, editorVars, storyDirHandle>>

\* getAssetUrl has answered: the command sets its element and calls play(),
\* or returns when there is no url
loadPage_played(w, load, url) ==
    IF url = "" THEN Advance(w, load, Tail(load.commands))
    ELSE [world |-> w, waits |-> <<[load EXCEPT !.stage = "play"]>>]

loadPage_url(w, load, got) ==
    loadPage_played([w EXCEPT !.audioManager =
                                  executeAudioCommand_end(Head(load.commands), @, got.url),
                              !.assetManager = got.manager],
                    load, got.url)

UrlDone(i) ==
    /\ loads[i].stage = "url"
    /\ \E next \in {loadPage_url(World, loads[i],
                                  getAssetUrl(assetManager, Head(loads[i].commands).file))} :
           /\ SetWorld(next.world)
           /\ loads' = Replace(i, next.waits)
    /\ UNCHANGED <<pc, textVars, editorVars, storyDirHandle>>

\* play() has settled
PlayDone(i) ==
    /\ loads[i].stage = "play"
    /\ \E next \in {Advance(World, loads[i], Tail(loads[i].commands))} :
           /\ SetWorld(next.world)
           /\ loads' = Replace(i, next.waits)
    /\ UNCHANGED <<pc, textVars, editorVars, storyDirHandle>>

\* a handler sets the world and calls loadPage(), which computes the file
\* name and waits for the file
CallLoadPage(w) ==
    /\ Len(loads) < MaxLoads
    /\ SetWorld(w)
    /\ loads' = Append(loads, Load("read", getCurrentFilename(w.playerState), <<>>, <<>>))
    /\ UNCHANGED <<textVars, editorVars, storyDirHandle>>

showGame(w) == [w EXCEPT !.elements.ending = FALSE]

\* the resume dialog's two buttons, or startNewGame when nothing is saved
StartNewGame ==
    /\ pc = "menu"
    /\ pc' = "playing"
    /\ CallLoadPage(showGame([World EXCEPT !.playerState = startGame(@, 1, "")]))

ResumeGame ==
    /\ pc = "menu"
    /\ storage # NoSave
    /\ pc' = "playing"
    /\ CallLoadPage(showGame([World EXCEPT !.playerState =
           [fromSaveState(@, storage) EXCEPT !.isPlaying = TRUE]]))

\* a click on (or the key of) one of the choice buttons on the page
HandleChoice(k) ==
    /\ pc = "playing"
    /\ elements.choices[k].className = ""
    /\ Len(playerState.choiceLog) < MaxPath
    /\ LET next == makeChoice(playerState, elements.choices[k].choice,
                              elements.choices[k].goto)
       IN  /\ next.currentPage <= MaxPageNumber
           /\ next.currentPath \in Paths
           /\ CallLoadPage([World EXCEPT !.playerState = next])
    /\ UNCHANGED pc

HandleContinue ==
    /\ pc = "playing"
    /\ \E k \in 1..Len(elements.choices) : elements.choices[k].className = "continue-btn"
    /\ playerState.currentPage < MaxPageNumber
    /\ CallLoadPage([World EXCEPT !.playerState = continueToNext(@)])
    /\ UNCHANGED pc

HandleRestart ==
    /\ pc = "playing"
    /\ CallLoadPage([World EXCEPT !.storage = NoSave,
                                  !.audioManager = stopAllAudio(@),
                                  !.playerState = restart(@),
                                  !.elements.ending = FALSE])
    /\ UNCHANGED pc

JumpCodes == {"2a", "3", "page 2"}

ErrorHtml == <<<<Txt("Invalid page code.")>>>>

HandleJump(code) ==
    /\ pc = "playing"
    /\ IF jumpToPage(playerState, code) = NoCode
       THEN /\ elements' = [elements EXCEPT !.story = ErrorHtml]
            /\ UNCHANGED <<playerState, storage, audioManager, assetManager, loads,
                           textVars, editorVars, storyDirHandle>>
       ELSE CallLoadPage([World EXCEPT !.playerState =
                             [jumpToPage(playerState, code) EXCEPT !.isPlaying = TRUE]])
    /\ UNCHANGED pc

\* the Open Folder button while a story is on: the folder is picked again,
\* the cached assets are cleared and the audio stopped, and the player is
\* asked to resume or starts anew.  The picker and the directory reads of
\* the handler are folded into this step; loadPage() calls in flight go on.
clearAssets(manager) == [manager EXCEPT !.blobUrls = <<>>, !.assetsDir = {}]

setAssetsDirectory(manager, handle) == [clearAssets(manager) EXCEPT !.assetsDir = handle]

OpenStoryFolder ==
    /\ pc = "playing"
    /\ pc' = "menu"
    /\ playerState' = [playerState EXCEPT !.storyFolder = "story"]
    /\ assetManager' = setAssetsDirectory(clearAssets(assetManager), StoryAssetsDir)
    /\ audioManager' = stopAllAudio(audioManager)
    /\ UNCHANGED <<elements, storage, loads, textVars, editorVars, storyDirHandle>>

\* the refresh button
Refresh ==
    /\ pc = "playing"
    /\ playerState.isPlaying
    /\ CallLoadPage(World)
    /\ UNCHANGED pc


\* the page files of the story folder
Story ==
    ("1.txt" :> <<Txt("Start"), SetTok("x", "5"), Music("theme.mp3", TRUE),
                  ChoiceLine("a", "", "Left"), ChoiceLine("b", "3", "Skip")>>)
    @@ ("2a.txt" :> <<Txt("Room"), IfTok("hasKey", "", ""), Txt("Key"), EndIf>>)
    @@ ("3a.txt" :> <<Txt("Hall"), SetTok("hasKey", "true"), Stop("music")>>)
    @@ ("3.txt" :> <<Txt("Shortcut"), Ambient("rain.mp3", TRUE)>>)

\* progress saved by an earlier session, or none
SavedProgress ==
    {NoSave, [page |-> 2, path |-> "a", variables |-> [EmptyState EXCEPT !["x"] = Num(5)]]}

\* openStoryFolder has set the folder and asks to resume or starts anew
InitPlayer ==
    /\ pc = "menu"
    /\ TextIdle /\ EditorIdle
    /\ playerState = [createPlayerState EXCEPT !.storyFolder = "story"]
    /\ elements = InitialElements(Panel(FALSE, <<>>))
    /\ storage \in SavedProgress
    /\ audioManager = createAudioManager
    /\ assetManager = InitialAssets
    /\ storyDirHandle = Story
    /\ loads = <<>>

NextPlayer ==
    \/ StartNewGame
    \/ ResumeGame
    \/ \E k \in 1..Len(elements.choices) : HandleChoice(k)
    \/ HandleContinue
    \/ HandleRestart
    \/ \E code \in JumpCodes : HandleJump(code)
    \/ Refresh
    \/ OpenStoryFolder
    \/ \E i \in 1..Len(loads) : ReadDone(i)
    \/ \E i \in 1..Len(loads) : UrlDone(i)
    \/ \E i \in 1..Len(loads) : PlayDone(i)

SpecPlayer == InitPlayer /\ [][NextPlayer]_vars

\* what loading the player's current position shows
Shown == {displayPage_begin(World, storyDirHandle[getCurrentFilename(playerState)])}

\* C7: a load superseded by a later navigation is discarded: once all loads
\* have completed, the story and the choices on the page, the variables and
\* the saved progress are those of the player's current position (the
\* ending screen, and no saved progress, where the position has no page).
C7_SupersededDiscarded ==
    pc = "playing" /\ loads = <<>> /\ elements.story # ErrorHtml =>
        IF getCurrentFilename(playerState) \notin DOMAIN storyDirHandle
        THEN elements.ending /\ elements.choices = <<>> /\ storage = NoSave
        ELSE \A shown \in Shown :
                 /\ elements.story = shown.world.elements.story
                 /\ elements.choices = renderChoices(shown.choices)
                 /\ playerState.variables = shown.world.playerState.variables
                 /\ storage = toSaveState(playerState)

\* C18: when the page file of the player's current position does not exist
\* the player shows the ending with no choice or continue button and clears
\* the saved progress, and nothing is saved again until the player next
\* navigates: with no load in flight and the position without a page file,
\* the ending is shown, there is no button and no progress is saved.
C18_EndingShown ==
    /\ pc = "playing"
    /\ loads = <<>>
    /\ getCurrentFilename(playerState) \notin DOMAIN storyDirHandle
    => elements.ending /\ elements.choices = <<>> /\ storage = NoSave

\* the step of C18 taken alone: the load that finds its page file missing
\* shows the ending, removes the buttons and clears the saved progress
C18_ShowEndingStep ==
    [][\A i \in 1..Len(loads) :
           /\ loads[i].stage = "read"
           /\ loads[i].filename \notin DOMAIN storyDirHandle
           /\ loads' = Replace(i, <<>>)
           => elements'.ending /\ elements'.choices = <<>> /\ storage' = NoSave]_vars

\* C19: whenever a story session starts (a new game, a restart, a new game
\* begun after an earlier playthrough in the same browser session) the
\* variable state is empty before the first page is rendered.
C19_FreshVariables ==
    [][StartNewGame \/ HandleRestart => playerState'.variables = EmptyState]_vars

\* C19 for the restart alone
C19_Restart ==
    [][HandleRestart => playerState'.variables = EmptyState]_vars

(***************************************************************************)
(* jumpToPage and makeChoice on every position, with page ids and strings  *)
(* that are no page id.                                                    *)
(***************************************************************************)
NavPages == 1..3

\* what a jump code or the goto of a choice can spell
NavStrings == {"2a", "3", "page 2", "cellar"}

NavStates ==
    {startGame([createPlayerState EXCEPT !.storyFolder = "story"], page, path) :
        page \in NavPages, path \in Paths}

JumpToPage ==
    \E code \in NavStrings :
        Return("jumpToPage", [code |-> code, state |-> jumpToPage(playerState, code)])

\* gotoPage is '' for a choice without goto
MakeChoice ==
    \E letter \in {"a", "b"}, gotoPage \in NavStrings \cup {""} :
        Return("makeChoice", [letter |-> letter, gotoPage |-> gotoPage,
                              state |-> makeChoice(playerState, letter, gotoPage)])

InitNav == /\ pc = "input"
           /\ TextIdle /\ EditorIdle
           /\ playerState \in NavStates
           /\ elements = <<>>
           /\ storage = <<>>
           /\ audioManager = <<>>
           /\ assetManager = <<>>
           /\ storyDirHandle = <<>>
           /\ loads = <<>>

NextNav == JumpToPage \/ MakeChoice

SpecNav == InitNav /\ [][NextNav]_vars

\* a string of the form <number><letters a-e>
ValidPageId(str) == \E parsed \in ParsedIds : IdString(parsed.num, parsed.path) = str

\* C20: a navigation request with a string that is no valid page id fails
\* explicitly and navigates nowhere: jumpToPage returns null, and makeChoice
\* given a goto that is no valid page id leaves the player's position as it
\* was.
C20_InvalidIdFails ==
    /\ Returned("jumpToPage") /\ ~ValidPageId(result.value.code) =>
           result.value.state = NoCode
    /\ Returned("makeChoice") /\ result.value.gotoPage # ""
           /\ ~ValidPageId(result.value.gotoPage) =>
           /\ result.value.state.currentPage = playerState.currentPage
           /\ result.value.state.currentPath = playerState.currentPath

\* C20 for jumpToPage alone
C20_JumpFails ==
    Returned("jumpToPage") /\ ~ValidPageId(result.value.code) =>
        result.value.state = NoCode

(***************************************************************************)
(* The traversals of buildGraphData, buildPageTree and validateImport, one *)
(* loop iteration (one buildNode call) at a time.  result holds the locals *)
(* of the running function: its queue, its call stack, its reachable or    *)
(* visited set, and the pages whose choices it has gone through, in order. *)
(***************************************************************************)
MaxWalkPages == 3

WalkIds == {"1", "2", "2a", "2b"}

\* continue pages, endings, default children, gotos back to the start, to
\* the page itself, and twice to the same page
WalkShapes ==
    {Page(<<Txt("X")>>, FALSE, FALSE, <<>>),
     Page(<<>>, FALSE, TRUE, <<>>),
     Page(<<Txt("X")>>, TRUE, FALSE,
          <<Choice("a", "Left", ""), Choice("b", "Right", "")>>),
     Page(<<Txt("X")>>, TRUE, FALSE,
          <<Choice("a", "Back", "1"), Choice("b", "Right", "")>>),
     Page(<<Txt("X")>>, TRUE, FALSE,
          <<Choice("a", "Stay", "2"), Choice("b", "Side", "2a")>>),
     Page(<<Txt("X")>>, TRUE, FALSE,
          <<Choice("a", "On", "2"), Choice("b", "Also on", "2")>>)}

WalkCollections ==
    UNION {[ids -> WalkShapes] :
              ids \in {S \in SUBSET WalkIds : Cardinality(S) <= MaxWalkPages}}

\* a membership test that never finds the id
Seen_never(set, id) == FALSE

\* reachable.has(current), reachable.has(targetId), visited.has(id)
Seen(set, id) == id \in set

Locals(fn, queue, stack, reachable, expanded) ==
    [fn |-> fn, queue |-> queue, stack |-> stack, reachable |-> reachable,
     expanded |-> expanded]

\* buildNode(id, ..) up to its loop: null for a missing or visited page,
\* else the page is marked and a frame with its targets is entered
CallNode(locals, id) ==
    IF ~Has(pages, id) \/ Seen(locals.reachable, id) THEN locals
    ELSE Locals(locals.fn, locals.queue,
                Append(locals.stack, [id |-> id, targets |-> TreeTargets(pages, id)]),
                locals.reachable \cup {id}, Append(locals.expanded, id))

\* validateImport: the target ids of page `current` before the tests
ImportCandidates(pgs, current) ==
    LET page   == pgs[current]
        parsed == parsePageId(current)
    IN  IF page.hasChoices
        THEN IF parsed = NoId THEN <<>>
             ELSE [k \in 1..Len(page.choices) |->
                      IF page.choices[k].goto # "" THEN page.choices[k].goto
                      ELSE IdString(parsed.num + 1, parsed.path \o page.choices[k].letter)]
        ELSE IF ~page.isEnding /\ parsed # NoId
        THEN <<IdString(parsed.num + 1, parsed.path)>>
        ELSE <<>>

\* if (result.pages[targetId] && !reachable.has(targetId)) { add; push }
RECURSIVE ImportPush(_, _)
ImportPush(locals, targets) ==
    IF targets = <<>> THEN locals
    ELSE ImportPush(
             IF Has(pages, Head(targets)) /\ ~Seen(locals.reachable, Head(targets))
             THEN Locals(locals.fn, Append(locals.queue, Head(targets)), locals.stack,
                         locals.reachable \cup {Head(targets)}, locals.expanded)
             ELSE locals,
             Tail(targets))

\* the first statements of a function, up to its loop
StartWalk(fn) ==
    /\ pc = "input"
    /\ pc' = "loop"
    /\ result' = IF fn = "buildGraphData" THEN Locals(fn, <<"1">>, <<>>, {}, <<>>)
                 ELSE IF fn = "validateImport" THEN Locals(fn, <<"1">>, <<>>, {"1"}, <<>>)
                 ELSE IF Has(pages, "1") THEN CallNode(Locals(fn, <<>>, <<>>, {}, <<>>), "1")
                 ELSE Locals(fn, <<>>, <<>>, {}, <<>>)
    /\ UNCHANGED <<text, variables, editorVars, playerVars>>

\* a run is followed while it has gone through no more pages than there
\* are pages and one
Followed == Len(result.expanded) <= Cardinality(DOMAIN pages)

\* buildGraphData: one iteration of while (queue.length > 0)
GraphStep ==
    /\ pc = "loop" /\ result.fn = "buildGraphData" /\ result.queue # <<>>
    /\ Followed
    /\ LET current == Head(result.queue) IN
       result' = IF Seen(result.reachable, current) \/ ~Has(pages, current)
                 THEN [result EXCEPT !.queue = Tail(@)]
                 ELSE Locals(result.fn, Tail(result.queue) \o GraphTargets(pages, current),
                             result.stack, result.reachable \cup {current},
                             Append(result.expanded, current))
    /\ UNCHANGED <<pc, text, variables, editorVars, playerVars>>

\* validateImport: one iteration of while (queue.length > 0)
ImportStep ==
    /\ pc = "loop" /\ result.fn = "validateImport" /\ result.queue # <<>>
    /\ Followed
    /\ LET current == Head(result.queue) IN
       result' = IF ~Has(pages, current)
                 THEN [result EXCEPT !.queue = Tail(@)]
                 ELSE ImportPush(Locals(result.fn, Tail(result.queue), result.stack,
                                        result.reachable,
                                        Append(result.expanded, current)),
                                 ImportCandidates(pages, current))
    /\ UNCHANGED <<pc, text, variables, editorVars, playerVars>>

\* buildPageTree: the innermost buildNode call takes its next target and
\* calls buildNode on it, or returns when it has none left
TreeStep ==
    /\ pc = "loop" /\ result.fn = "buildPageTree" /\ result.stack # <<>>
    /\ Followed
    /\ LET top   == result.stack[Len(result.stack)]
           below == SubSeq(result.stack, 1, Len(result.stack) - 1)
       IN  result' = IF top.targets = <<>>
                     THEN [result EXCEPT !.stack = below]
                     ELSE CallNode([result EXCEPT !.stack =
                                       Append(below, [top EXCEPT !.targets = Tail(@)])],
                                   Head(top.targets))
    /\ UNCHANGED <<pc, text, variables, editorVars, playerVars>>

\* the loop is left: what follows it is one pass over the pages
WalkReturn ==
    /\ pc = "loop" /\ result.queue = <<>> /\ result.stack = <<>>
    /\ pc' = "done"
    /\ UNCHANGED <<text, variables, result, editorVars, playerVars>>

InitWalk == /\ pc = "input"
            /\ pages \in WalkCollections
            /\ editorState = <<>> /\ editorElements = <<>>
            /\ TextIdle /\ PlayerIdle

NextWalk == \/ \E fn \in {"buildGraphData", "buildPageTree", "validateImport"} :
                   StartWalk(fn)
            \/ GraphStep
            \/ ImportStep
            \/ TreeStep
            \/ WalkReturn

\* a called function runs until it returns
SpecWalk == InitWalk /\ [][NextWalk]_vars /\ WF_vars(NextWalk)

NoRepeat(seq) == \A i, j \in 1..Len(seq) : seq[i] = seq[j] => i = j

\* C22: buildGraphData, buildPageTree and validateImport terminate on every
\* finite page collection, cycles and self-loops of goto targets included,
\* and go through the choices of each page at most once.
C22_Terminates ==
    /\ <>(pc = "done")
    /\ [](pc # "input" => NoRepeat(result.expanded))

C22_Witness ==
    /\ pc = "done"
    /\ result.fn = "validateImport"
    /\ Has(pages, "1") /\ pages["1"].choices # <<>> /\ pages["1"].choices[1].goto = "1"
    /\ Has(pages, "2b") /\ pages["2b"].choices # <<>> /\ pages["2b"].choices[1].goto = "2"
    /\ Has(pages, "2") /\ pages["2"].choices # <<>> /\ pages["2"].choices[1].goto = "2"
    /\ result.expanded = <<"1", "2b", "2">>

(***************************************************************************)
(* engine/variables.ts processConditionals on texts of single characters,  *)
(* one pass of its while loop at a time.  The texts are put together from  *)
(* whole tokens and from pieces of tokens, so that a replacement can join  *)
(* two pieces into a token that was not there before.                      *)
(***************************************************************************)
MaxPieces == 3

Pieces ==
    {<<"{", "i", "f", ":", "x", "}">>,
     <<"{", "I", "F", ":", "x", "}">>,
     <<"{", "i", "f", ":", "x", ">", "5", "}">>,
     <<"{", "/", "i", "f", "}">>,
     <<"{", "i">>,
     <<"{", "/", "i", "f", "}", "f", ":", "x", "}", "{", "/", "i", "f", "}">>,
     <<"a">>}

PieceTexts == {Flatten(q) : q \in UNION {[1..k -> Pieces] : k \in 0..MaxPieces}}

\* the i flag
LowerChar(c) == IF c = "I" THEN "i" ELSE IF c = "F" THEN "f" ELSE c

\* the literal lit matches at position i
StartsAt(cs, i, lit) ==
    /\ i + Len(lit) - 1 <= Len(cs)
    /\ \A k \in 1..Len(lit) : LowerChar(cs[i + k - 1]) = lit[k]

IfOpen  == <<"{", "i", "f", ":">>
IfClose == <<"{", "/", "i", "f", "}">>

\* \w on the characters of the model
WordChars == {"i", "f", "I", "F", "x", "a", "5"}

\* (\w+) from i: the position after the last word character
WordEnd(cs, i) ==
    LET end[j \in 1..(Len(cs) + 1)] ==
            IF j <= Len(cs) /\ cs[j] \in WordChars THEN end[j + 1] ELSE j
    IN  end[i]

\* ([^}]+)\} from i: the position of the first `}`, 0 when there is none
CloseBrace(cs, i) ==
    LET brace[j \in 1..(Len(cs) + 1)] ==
            IF j > Len(cs) THEN 0
            ELSE IF cs[j] = "}" THEN j
            ELSE brace[j + 1]
    IN  brace[i]

\* (==|!=|>=|<=|>|<) in the order the alternatives are tried
OperatorForms ==
    <<(<<"=", "=">>), (<<"!", "=">>), (<<">", "=">>), (<<"<", "=">>), (<<">">>), (<<"<">>)>>

\* the operator at n matches and a value of one character or more and a
\* closing brace follow it
OperatorFits(cs, n, op) ==
    StartsAt(cs, n, op) /\ CloseBrace(cs, n + Len(op)) > n + Len(op)

NoHeader == [ok |-> FALSE, name |-> <<>>, op |-> <<>>, value |-> <<>>, last |-> 0]

HeaderWith(cs, i, n, op) ==
    [ok |-> TRUE, name |-> SubSeq(cs, i + 4, n - 1), op |-> op,
     value |-> SubSeq(cs, n + Len(op), CloseBrace(cs, n + Len(op)) - 1),
     last |-> CloseBrace(cs, n + Len(op))]

\* \{if:(\w+)(?:(==|!=|>=|<=|>|<)([^}]+))?\} at i, the name ending before n
HeaderFrom(cs, i, n) ==
    IF n = i + 4 \/ n > Len(cs) THEN NoHeader
    ELSE IF cs[n] = "}"
    THEN [ok |-> TRUE, name |-> SubSeq(cs, i + 4, n - 1), op |-> <<>>,
          value |-> <<>>, last |-> n]
    ELSE IF \E k \in 1..Len(OperatorForms) : OperatorFits(cs, n, OperatorForms[k])
    THEN HeaderWith(cs, i, n,
             OperatorForms[CHOOSE k \in 1..Len(OperatorForms) :
                              /\ OperatorFits(cs, n, OperatorForms[k])
                              /\ \A j \in 1..(k - 1) :
                                     ~OperatorFits(cs, n, OperatorForms[j])])
    ELSE NoHeader

Header(cs, i) ==
    IF StartsAt(cs, i, IfOpen) THEN HeaderFrom(cs, i, WordEnd(cs, i + 4)) ELSE NoHeader

\* ((?:(?!\{if:)[\s\S])*?)\{\/if\} from k: the position of the `{/if}` that
\* ends the body, 0 when an `{if:` or the end of the text comes first
BodyEnd(cs, k) ==
    LET end[j \in 1..(Len(cs) + 1)] ==
            IF j > Len(cs) THEN 0
            ELSE IF StartsAt(cs, j, IfClose) THEN j
            ELSE IF StartsAt(cs, j, IfOpen) THEN 0
            ELSE end[j + 1]
    IN  end[k]

\* the expression matches at i
MatchesAt(cs, i) == Header(cs, i).ok /\ BodyEnd(cs, Header(cs, i).last + 1) # 0

\* the position of the last character of the match at i
MatchEnd(cs, i) == BodyEnd(cs, Header(cs, i).last + 1) + Len(IfClose) - 1

\* the callback with the whole match returned
Replacement_match(state, cs, i) == SubSeq(cs, i, MatchEnd(cs, i))

\* the callback of replace: the content of the block or ''
Replacement(state, cs, i) ==
    IF Predicate(state, IfTok(Join(Header(cs, i).name), Join(Header(cs, i).op),
                              Join(Header(cs, i).value)))
    THEN SubSeq(cs, Header(cs, i).last + 1, BodyEnd(cs, Header(cs, i).last + 1) - 1)
    ELSE <<>>

\* result.replace(regex, callback): the text from each position on, replaced
ReplacePass(cs, state) ==
    LET from[i \in 1..(Len(cs) + 1)] ==
            IF i > Len(cs) THEN <<>>
            ELSE IF MatchesAt(cs, i)
            THEN Replacement(state, cs, i) \o from[MatchEnd(cs, i) + 1]
            ELSE <<cs[i]>> \o from[i + 1]
    IN  from[1]

\* let result = text; let changed = true
CallProcessConditionals ==
    /\ pc = "input"
    /\ pc' = "loop"
    /\ result' = [fn |-> "processConditionals", result |-> text, changed |-> TRUE]
    /\ UNCHANGED <<text, variables, editorVars, playerVars>>

\* one iteration of while (changed)
ConditionalPass ==
    /\ pc = "loop" /\ result.changed
    /\ result' = [fn |-> result.fn,
                  result |-> ReplacePass(result.result, variables),
                  changed |-> \E i \in 1..Len(result.result) : MatchesAt(result.result, i)]
    /\ UNCHANGED <<pc, text, variables, editorVars, playerVars>>

\* return result
ReturnConditionals ==
    /\ pc = "loop" /\ ~result.changed
    /\ pc' = "done"
    /\ UNCHANGED <<text, variables, result, editorVars, playerVars>>

InitLoop == /\ pc = "input"
            /\ text \in PieceTexts
            /\ variables \in {EmptyState, [EmptyState EXCEPT !["x"] = Num(10)]}
            /\ result = NoResult
            /\ EditorIdle /\ PlayerIdle

NextLoop == CallProcessConditionals \/ ConditionalPass \/ ReturnConditionals

\* the function runs until it returns
SpecLoop == InitLoop /\ [][NextLoop]_vars /\ WF_vars(NextLoop)

\* C23: the repeat-until-no-match loop of processConditionals terminates on
\* every input text, unbalanced, overlapping and nested {if:..} / {/if}
\* tokens included.
C23_LoopTerminates == <>(pc = "done")

C23_Witness ==
    /\ pc = "done"
    /\ text = <<"{", "i">> \o <<"{", "i", "f", ":", "x", "}">> \o IfClose
              \o <<"f", ":", "x", "}">> \o IfClose
    /\ variables["x"] = Num(10)
    /\ result.result = <<>>

(***************************************************************************)
(* shared/utils.ts parsePageId on strings of single characters: digits     *)
(* with leading zeros, letters of either case, letters outside a..e and    *)
(* other characters.  Page numbers stay in the range in which a Number is  *)
(* an exact integer.                                                       *)
(***************************************************************************)
MaxIdChars == 4

IdChars == {"0", "1", "7", "a", "E", "f", "-"}

IdTexts == UNION {[1..k -> IdChars] : k \in 0..MaxIdChars}

Digits == {"0", "1", "2", "3", "4", "5", "6", "7", "8", "9"}

DigitValue(c) ==
    CASE c = "0" -> 0 [] c = "1" -> 1 [] c = "2" -> 2 [] c = "3" -> 3 [] c = "4" -> 4
      [] c = "5" -> 5 [] c = "6" -> 6 [] c = "7" -> 7 [] c = "8" -> 8 [] c = "9" -> 9

\* String.prototype.toLowerCase on the letters of the model
LowerCase(c) ==
    CASE c = "A" -> "a" [] c = "B" -> "b" [] c = "C" -> "c" [] c = "D" -> "d"
      [] c = "E" -> "e" [] c = "F" -> "f" [] OTHER -> c

LowerAll(cs) == [j \in 1..Len(cs) |-> LowerCase(cs[j])]

\* [a-e] read with the case of the character as it is
IsPathLetter_sensitive(c) == c \in {"a", "b", "c", "d", "e"}

\* [a-e] under the i flag
IsPathLetter(c) == LowerCase(c) \in {"a", "b", "c", "d", "e"}

\* ^(\d+): the length of the longest prefix of digits
DigitPrefix(cs) ==
    CHOOSE k \in 0..Len(cs) :
        /\ \A j \in 1..k : cs[j] \in Digits
        /\ k = Len(cs) \/ cs[k + 1] \notin Digits

\* parseInt(digits, 10)
parseInt(ds) ==
    LET value[k \in 0..Len(ds)] ==
            IF k = 0 THEN 0 ELSE value[k - 1] * 10 + DigitValue(ds[k])
    IN  value[Len(ds)]

\* null
NoParse == [num |-> -1, path |-> ""]

\* id.match(/^(\d+)([a-e]*)$/i), parseInt(match[1], 10), match[2].toLowerCase()
parsePageId_chars(cs) ==
    IF \/ DigitPrefix(cs) = 0
       \/ \E j \in (DigitPrefix(cs) + 1)..Len(cs) : ~IsPathLetter(cs[j])
    THEN NoParse
    ELSE [num  |-> parseInt(SubSeq(cs, 1, DigitPrefix(cs))),
          path |-> Join(LowerAll(SubSeq(cs, DigitPrefix(cs) + 1, Len(cs))))]

ParsePageId == Return("parsePageId", parsePageId_chars(text))

\* the save code of the position that the lowercased text parses to
SaveCodeOfParsed ==
    /\ parsePageId_chars(LowerAll(text)) # NoParse
    /\ Return("getSaveCode",
              getSaveCode([createPlayerState EXCEPT
                  !.currentPage = parsePageId_chars(LowerAll(text)).num,
                  !.currentPath = parsePageId_chars(LowerAll(text)).path]))

InitIds == /\ pc = "input"
           /\ text \in IdTexts
           /\ variables = EmptyState /\ result = NoResult
           /\ EditorIdle /\ PlayerIdle

NextIds == ParsePageId \/ SaveCodeOfParsed

SpecIds == InitIds /\ [][NextIds]_vars

\* the grammar ^[0-9]+[a-e]*$, case-insensitive, with k digits
InGrammar(cs, k) ==
    /\ k \in 1..Len(cs)
    /\ \A j \in 1..k : cs[j] \in Digits
    /\ \A j \in (k + 1)..Len(cs) :
           cs[j] \in {"a", "b", "c", "d", "e", "A", "B", "C", "D", "E"}

RECURSIVE Pow10(_)
Pow10(k) == IF k = 0 THEN 1 ELSE 10 * Pow10(k - 1)

RECURSIVE DecimalValue(_)
DecimalValue(ds) ==
    IF ds = <<>> THEN 0
    ELSE DigitValue(Head(ds)) * Pow10(Len(ds) - 1) + DecimalValue(Tail(ds))

\* C24: parsePageId returns null exactly for the strings that do not match
\* ^[0-9]+[a-e]*$ case-insensitively; for a matching string num is the
\* decimal value of the digit prefix and path is the letter suffix in
\* lowercase.
C24_ParsePageId ==
    Returned("parsePageId") =>
        /\ result.value = NoParse <=> ~\E k \in 1..Len(text) : InGrammar(text, k)
        /\ \A k \in 1..Len(text) :
               InGrammar(text, k) /\ (k = Len(text) \/ text[k + 1] \notin Digits) =>
                   /\ result.value.num = DecimalValue(SubSeq(text, 1, k))
                   /\ result.value.path = Join(LowerAll(SubSeq(text, k + 1, Len(text))))

C24_Witness ==
    /\ Returned("parsePageId")
    /\ text = <<"0", "1", "7", "E">>
    /\ result.value = [num |-> 17, path |-> "e"]

\* C25 as stated: for every string s of the grammar, the save code of the
\* parse of lowercase(s) is lowercase(s).
C25_RoundTrip ==
    Returned("getSaveCode") => result.value = Join(LowerAll(text))

\* no zero before the first digit of the number
Canonical(cs) == cs[1] # "0" \/ DigitPrefix(cs) = 1

\* C25 amended: for every string s of the grammar whose number is written
\* without leading zeros, the save code of the parse of lowercase(s) is
\* lowercase(s).
C25_CanonicalRoundTrip ==
    Returned("getSaveCode") /\ Canonical(text) => result.value = Join(LowerAll(text))

C25_Witness ==
    /\ Returned("getSaveCode")
    /\ text = <<"1", "0", "a", "E">>
    /\ result.value = "10ae"

(***************************************************************************)
(* shared/utils.ts comparePageIds on three page-id strings at a time.      *)
(***************************************************************************)
\* ids with one and two digits, a leading zero, paths of up to two letters,
\* a path that is a prefix of another, and one id in two spellings
CompareIds ==
    {<<"1">>, <<"2">>, <<"3">>, <<"0", "2">>, <<"1", "0">>,
     <<"2", "a">>, <<"2", "b">>, <<"2", "A">>, <<"3", "a">>,
     <<"2", "a", "b">>, <<"2", "b", "a">>, <<"1", "0", "a">>}

\* the rank of a character in the collation: digits before letters
Rank(c) ==
    CASE c = "0" -> 0 [] c = "1" -> 1 [] c = "2" -> 2 [] c = "3" -> 3 [] c = "4" -> 4
      [] c = "5" -> 5 [] c = "6" -> 6 [] c = "7" -> 7 [] c = "8" -> 8 [] c = "9" -> 9
      [] c = "a" -> 10 [] c = "b" -> 11 [] c = "c" -> 12 [] c = "d" -> 13
      [] c = "e" -> 14 [] OTHER -> 15

\* the comparison read backwards
localeCompare_reversed(x, y) ==
    LET from[j \in 1..(Len(x) + 1)] ==
            IF j > Len(x) THEN (IF j > Len(y) THEN 0 ELSE 1)
            ELSE IF j > Len(y) THEN -1
            ELSE IF Rank(x[j]) < Rank(y[j]) THEN 1
            ELSE IF Rank(x[j]) > Rank(y[j]) THEN -1
            ELSE from[j + 1]
    IN  from[1]

\* String.prototype.localeCompare on strings of digits and lowercase
\* letters: the first position that differs decides, a proper prefix sorts
\* first
localeCompare(x, y) ==
    LET from[j \in 1..(Len(x) + 1)] ==
            IF j > Len(x) THEN (IF j > Len(y) THEN 0 ELSE -1)
            ELSE IF j > Len(y) THEN 1
            ELSE IF Rank(x[j]) < Rank(y[j]) THEN -1
            ELSE IF Rank(x[j]) > Rank(y[j]) THEN 1
            ELSE from[j + 1]
    IN  from[1]

\* the lowercased letter suffix of a parsed id, as characters
PathChars(cs) == LowerAll(SubSeq(cs, DigitPrefix(cs) + 1, Len(cs)))

comparePageIds(a, b) ==
    IF parsePageId_chars(a) = NoParse \/ parsePageId_chars(b) = NoParse
    THEN localeCompare(a, b)
    ELSE IF parsePageId_chars(a).num # parsePageId_chars(b).num
    THEN parsePageId_chars(a).num - parsePageId_chars(b).num
    ELSE localeCompare(PathChars(a), PathChars(b))

\* text holds three ids; every pair of them is compared
ComparePageIds ==
    Return("comparePageIds",
           [i \in 1..3 |-> [j \in 1..3 |-> comparePageIds(text[i], text[j])]])

InitCompare == /\ pc = "input"
               /\ text \in [1..3 -> CompareIds]
               /\ variables = EmptyState /\ result = NoResult
               /\ EditorIdle /\ PlayerIdle

NextCompare == ComparePageIds

SpecCompare == InitCompare /\ [][NextCompare]_vars

Sign(n) == IF n < 0 THEN -1 ELSE IF n > 0 THEN 1 ELSE 0

\* a is before b: smaller number, or the same number and the path of a
\* before the path of b letter by letter, a proper prefix first
Before(a, b) ==
    LET pa == PathChars(a)
        pb == PathChars(b)
    IN  \/ DecimalValue(SubSeq(a, 1, DigitPrefix(a))) < DecimalValue(SubSeq(b, 1, DigitPrefix(b)))
        \/ /\ DecimalValue(SubSeq(a, 1, DigitPrefix(a))) = DecimalValue(SubSeq(b, 1, DigitPrefix(b)))
           /\ \E k \in 0..Len(pa) :
                  /\ k <= Len(pb)
                  /\ SubSeq(pa, 1, k) = SubSeq(pb, 1, k)
                  /\ \/ k = Len(pa) /\ k < Len(pb)
                     \/ k < Len(pa) /\ k < Len(pb) /\ Rank(pa[k + 1]) < Rank(pb[k + 1])

ChoiceCounts == {0, 1, 2, 5, 6}

GetChildIds ==
    \E choiceCount \in ChoiceCounts :
        Return("getChildIds",
               [choiceCount |-> choiceCount,
                children |-> getChildIds(getSaveCode(playerState), choiceCount)])

ContinueToNext == Return("continueToNext", continueToNext(playerState))

NextChildren == GetChildIds \/ MakeChoice \/ ContinueToNext

SpecChildren == InitNav /\ [][NextChildren]_vars

\* C27: getChildIds(id, k) maps each of the first k letters of a..e to the
\* id (number+1, path+letter); makeChoice without a goto moves from (n, p)
\* to (n+1, p+letter), which is the child id of that letter, and
\* continueToNext moves from (n, p) to (n+1, p).
C27_DefaultAddressing ==
    /\ Returned("getChildIds") =>
           /\ Len(result.value.children) =
                  (IF result.value.choiceCount > 5 THEN 5 ELSE result.value.choiceCount)
           /\ \A k \in 1..Len(result.value.children) :
                  /\ result.value.children[k].letter = Letters[k]
                  /\ result.value.children[k].childId =
                         ToString(playerState.currentPage + 1)
                             \o playerState.currentPath \o Letters[k]
    /\ Returned("makeChoice") /\ result.value.gotoPage = "" =>
           /\ result.value.state.currentPage = playerState.currentPage + 1
           /\ result.value.state.currentPath = playerState.currentPath \o result.value.letter
           /\ \E k \in 1..2 :
                  /\ Letters[k] = result.value.letter
                  /\ getChildIds(getSaveCode(playerState), 2)[k].childId =
                         getSaveCode(result.value.state)
    /\ Returned("continueToNext") =>
           /\ result.value.currentPage = playerState.currentPage + 1
           /\ result.value.currentPath = playerState.currentPath

C27_Witness ==
    /\ Returned("makeChoice")
    /\ result.value.gotoPage = "" /\ result.value.letter = "b"
    /\ playerState.currentPage = 2 /\ playerState.currentPath = "a"
    /\ getSaveCode(result.value.state) = "3ab"
    /\ getChildIds("2a", 5)[2].childId = "3ab"

(***************************************************************************)
(* shared/utils.ts getDescendants on collections of pages, from ids that   *)
(* are in the collection and from ids that are not.                        *)
(***************************************************************************)
\* the tree under page 1 to its third level, two pages outside it, and one
\* page under a page outside it
DescendantIds == {"1", "2a", "2b", "3aa", "3ab", "3ba", "2", "3a", "4aa"}

DescendantCollections ==
    UNION {[ids -> {Page(<<>>, FALSE, FALSE, <<>>)}] : ids \in SUBSET DescendantIds}

\* for (const childId of Object.values(children)) if (pages[childId])
ExistingChildren(pgs, current) ==
    LET children == getChildIds(current, 5) IN
    SelectSeq([k \in 1..Len(children) |-> children[k].childId],
              LAMBDA childId : Has(pgs, childId))

\* while (queue.length > 0)
RECURSIVE DescendantsLoop(_, _, _)
DescendantsLoop(pgs, queue, descendants) ==
    IF queue = <<>> THEN descendants
    ELSE DescendantsLoop(pgs, Tail(queue) \o ExistingChildren(pgs, Head(queue)),
                         descendants \o ExistingChildren(pgs, Head(queue)))

\* the traversal with the page itself in the list
getDescendants_withSelf(pageId, pgs) == DescendantsLoop(pgs, <<pageId>>, <<pageId>>)

getDescendants(pageId, pgs) == DescendantsLoop(pgs, <<pageId>>, <<>>)

GetDescendants ==
    \E pageId \in DescendantIds :
        Return("getDescendants",
               [pageId |-> pageId, descendants |-> getDescendants(pageId, pages)])

InitDescendants == /\ pc = "input"
                   /\ pages \in DescendantCollections
                   /\ editorState = <<>> /\ editorElements = <<>>
                   /\ TextIdle /\ PlayerIdle

NextDescendants == GetDescendants

SpecDescendants == InitDescendants /\ [][NextDescendants]_vars

\* child is a default child id of parent: (number+1, path+letter)
IsDefaultChild(child, parent) ==
    /\ parsePageId(child) # NoId /\ parsePageId(parent) # NoId
    /\ parsePageId(child).num = parsePageId(parent).num + 1
    /\ \E k \in 1..Len(Letters) :
           parsePageId(child).path = parsePageId(parent).path \o Letters[k]

\* the pages of the collection reached from the pages of S in one step
\* more, until there are no more
RECURSIVE DefaultClosure(_, _, _)
DefaultClosure(pgs, pageId, S) ==
    IF \A child \in DOMAIN pgs :
           (\E parent \in S \cup {pageId} : IsDefaultChild(child, parent)) => child \in S
    THEN S
    ELSE DefaultClosure(pgs, pageId,
             {child \in DOMAIN pgs :
                 \E parent \in S \cup {pageId} : IsDefaultChild(child, parent)})

Range(seq) == {seq[k] : k \in 1..Len(seq)}

DescendantsAsStated(pageId, pgs, descendants) ==
    /\ NoRepeat(descendants)
    /\ pageId \notin Range(descendants)
    /\ Range(descendants) = DefaultClosure(pgs, pageId, {})
    /\ \A child \in Range(descendants) :
           \E parent \in DOMAIN pgs : IsDefaultChild(child, parent)

\* C28 as stated: getDescendants(id, pages) returns, each once and never id
\* itself, exactly the existing pages reached from id by default child ids
\* through existing pages, and no page whose default parent is missing.
C28_Descendants ==
    Returned("getDescendants") =>
        DescendantsAsStated(result.value.pageId, pages, result.value.descendants)

\* C28 amended: for id in the collection, getDescendants(id, pages)
\* returns, each once and never id itself, exactly the existing pages
\* reached from id by default child ids through existing pages, and no page
\* whose default parent is missing.
C28_DescendantsOfExisting ==
    Returned("getDescendants") /\ Has(pages, result.value.pageId) =>
        DescendantsAsStated(result.value.pageId, pages, result.value.descendants)

C28_Witness ==
    /\ Returned("getDescendants")
    /\ result.value.pageId = "1"
    /\ DOMAIN pages = {"1", "2a", "2b", "3aa", "3ba", "2", "3a"}
    /\ result.value.descendants = <<"2a", "2b", "3aa", "3ba">>

(***************************************************************************)
(* Choice lines on texts of single characters: shared/utils.ts             *)
(* parseChoiceLine, shared/format.ts extractChoices and the importer's     *)
(* parsePageContent, all three with one expression for a choice line:     *)
(* line start, letter, `)`, white space, optional bracketed page id and    *)
(* white space, text to the line end; under the flags i (parseChoiceLine)  *)
(* and gim (the other two).                                                *)
(***************************************************************************)
MaxChoicePieces == 4

ChoicePieces ==
    {<<"a", ")">>, <<"B", ")">>, <<"f", ")">>, <<" ">>, <<"\n">>,
     <<"[", "3", "A", "]">>, <<"x">>}

ChoiceTexts == {Flatten(q) : q \in UNION {[1..k -> ChoicePieces] : k \in 0..MaxChoicePieces}}

\* what `.` does not match and `$` under the m flag stops at
LineTerminators == {"\n", "\r"}

\* \s
WhiteSpace == {" ", "\t", "\n", "\r"}

\* \s* from i, taken to its end: the position of the first character that
\* is no white space
SpaceEnd(cs, i) ==
    CHOOSE k \in i..(Len(cs) + 1) :
        /\ \A j \in i..(k - 1) : cs[j] \in WhiteSpace
        /\ k = Len(cs) + 1 \/ cs[k] \notin WhiteSpace

\* (.+) from i: the position of the last character of the line of i
LineEnd(cs, i) ==
    CHOOSE k \in i..Len(cs) :
        /\ \A j \in i..k : cs[j] \notin LineTerminators
        /\ k = Len(cs) \/ cs[k + 1] \in LineTerminators

\* (.+)$ matches from q: a character that is no line terminator is there,
\* and without the m flag the line of q is the last of the text
TextFrom(cs, q, multiline) ==
    /\ q <= Len(cs) /\ cs[q] \notin LineTerminators
    /\ multiline \/ LineEnd(cs, q) = Len(cs)

\* the bracketed page id, \[ \d+ [a-e]* \], at p: the position of the `]`, 0 when it does not match
GotoEnd(cs, p) ==
    IF p > Len(cs) \/ cs[p] # "[" THEN 0
    ELSE LET rest   == SubSeq(cs, p + 1, Len(cs))
             digits == DigitPrefix(rest)
             close  == CHOOSE k \in (digits + 1)..(Len(rest) + 1) :
                           /\ \A j \in (digits + 1)..(k - 1) : IsPathLetter(rest[j])
                           /\ k = Len(rest) + 1 \/ ~IsPathLetter(rest[k])
         IN  IF digits > 0 /\ close <= Len(rest) /\ rest[close] = "]"
             THEN p + close ELSE 0

\* the text can start after the bracket at p and white space
AfterGoto(cs, p, multiline) ==
    /\ GotoEnd(cs, p) # 0
    /\ \E q \in (GotoEnd(cs, p) + 1)..SpaceEnd(cs, GotoEnd(cs, p) + 1) :
           TextFrom(cs, q, multiline)

\* the rest of the expression matches with the first \s* ending before p
RestFrom(cs, p, multiline) == AfterGoto(cs, p, multiline) \/ TextFrom(cs, p, multiline)

\* the expression matches at i
ChoiceAt(cs, i, multiline) ==
    /\ i = 1 \/ (multiline /\ cs[i - 1] \in LineTerminators)
    /\ i + 1 <= Len(cs)
    /\ IsPathLetter(cs[i])
    /\ cs[i + 1] = ")"
    /\ \E p \in (i + 2)..SpaceEnd(cs, i + 2) : RestFrom(cs, p, multiline)

\* where the first \s* ends in the match at i: as late as the rest allows
SpaceStop(cs, i, multiline) ==
    CHOOSE p \in (i + 2)..SpaceEnd(cs, i + 2) :
        /\ RestFrom(cs, p, multiline)
        /\ \A later \in (p + 1)..SpaceEnd(cs, i + 2) : ~RestFrom(cs, later, multiline)

\* where match[3] starts in the match at i whose first \s* ends before p
TextStart(cs, p, multiline) ==
    IF AfterGoto(cs, p, multiline)
    THEN CHOOSE q \in (GotoEnd(cs, p) + 1)..SpaceEnd(cs, GotoEnd(cs, p) + 1) :
             /\ TextFrom(cs, q, multiline)
             /\ \A later \in (q + 1)..SpaceEnd(cs, GotoEnd(cs, p) + 1) :
                    ~TextFrom(cs, later, multiline)
    ELSE p

\* String.prototype.trim
TrimChars(cs) ==
    IF \A j \in 1..Len(cs) : cs[j] \in WhiteSpace THEN <<>>
    ELSE SubSeq(cs,
                CHOOSE a \in 1..Len(cs) :
                    cs[a] \notin WhiteSpace /\ \A j \in 1..(a - 1) : cs[j] \in WhiteSpace,
                CHOOSE b \in 1..Len(cs) :
                    cs[b] \notin WhiteSpace /\ \A j \in (b + 1)..Len(cs) : cs[j] \in WhiteSpace)

\* { letter: match[1].toLowerCase(), text: match[3].trim(),
\*   goto: match[2]?.toLowerCase() } of the match at i, goto '' for undefined
ChoiceFields(cs, i, p, multiline) ==
    Choice(LowerCase(cs[i]),
           Join(TrimChars(SubSeq(cs, TextStart(cs, p, multiline),
                                 LineEnd(cs, TextStart(cs, p, multiline))))),
           IF AfterGoto(cs, p, multiline)
           THEN Join(LowerAll(SubSeq(cs, p + 1, GotoEnd(cs, p) - 1)))
           ELSE "")

\* the position of the last character of the match at i
ChoiceEnd(cs, i, multiline) ==
    LineEnd(cs, TextStart(cs, SpaceStop(cs, i, multiline), multiline))

\* null
NoChoiceLine == Choice("", "", "")

parseChoiceLine(line) ==
    IF ChoiceAt(line, 1, FALSE)
    THEN ChoiceFields(line, 1, SpaceStop(line, 1, FALSE), FALSE)
    ELSE NoChoiceLine

\* while ((match = choicePattern.exec(text)) !== null) choices.push(..)
ChoiceMatches(cs) ==
    LET from[i \in 1..(Len(cs) + 1)] ==
            IF i > Len(cs) THEN <<>>
            ELSE IF ChoiceAt(cs, i, TRUE)
            THEN <<ChoiceFields(cs, i, SpaceStop(cs, i, TRUE), TRUE)>>
                 \o from[ChoiceEnd(cs, i, TRUE) + 1]
            ELSE from[i + 1]
    IN  from[1]

\* text.replace(choice line expression without groups, '')
RemoveChoices(cs) ==
    LET from[i \in 1..(Len(cs) + 1)] ==
            IF i > Len(cs) THEN <<>>
            ELSE IF ChoiceAt(cs, i, TRUE) THEN from[ChoiceEnd(cs, i, TRUE) + 1]
            ELSE <<cs[i]>> \o from[i + 1]
    IN  from[1]

extractChoices_chars(cs) ==
    [storyText |-> Join(TrimChars(RemoveChoices(cs))), choices |-> ChoiceMatches(cs)]

\* String.prototype.includes
IncludesChars(cs, lit) ==
    \E i \in 1..Len(cs) : i + Len(lit) - 1 <= Len(cs) /\ SubSeq(cs, i, i + Len(lit) - 1) = lit

\* import.ts parsePageContent
parsePageContent(cs) ==
    LET choices    == ChoiceMatches(cs)
        hasChoices == choices # <<>>
        isEnding   == \/ IncludesChars(LowerAll(cs), <<"[", "e", "n", "d", "]">>)
                      \/ IncludesChars(LowerAll(cs), <<"t", "h", "e", " ", "e", "n", "d">>)
                      \/ ~hasChoices /\ ~IncludesChars(cs, <<"{", "g", "o", "t", "o", ":">>)
    IN  [content |-> Join(TrimChars(RemoveChoices(cs))),
         hasChoices |-> hasChoices,
         isEnding |-> isEnding /\ ~hasChoices,
         choices |-> IF hasChoices THEN choices
                     ELSE <<Choice("a", "", ""), Choice("b", "", "")>>]

ParseChoiceLine == Return("parseChoiceLine", parseChoiceLine(text))
ExtractChoicesChars == Return("extractChoices", extractChoices_chars(text))
ParsePageContent == Return("parsePageContent", parsePageContent(text))

InitChoices == /\ pc = "input"
               /\ text \in ChoiceTexts
               /\ variables = EmptyState /\ result = NoResult
               /\ EditorIdle /\ PlayerIdle

NextChoices == ParseChoiceLine \/ ExtractChoicesChars \/ ParsePageContent

SpecChoices == InitChoices /\ [][NextChoices]_vars

\* the lines of a text
Lines(cs) ==
    LET from[i \in 1..(Len(cs) + 1)] ==
            LET stop == CHOOSE k \in i..(Len(cs) + 1) :
                            /\ \A j \in i..(k - 1) : cs[j] # "\n"
                            /\ k = Len(cs) + 1 \/ cs[k] = "\n"
            IN  <<SubSeq(cs, i, stop - 1)>> \o (IF stop > Len(cs) THEN <<>> ELSE from[stop + 1])
    IN  from[1]

\* the choices of the lines of a text, each line parsed by parseChoiceLine
LineChoices(cs) ==
    SelectSeq([k \in 1..Len(Lines(cs)) |-> parseChoiceLine(Lines(cs)[k])],
              LAMBDA choice : choice # NoChoiceLine)

\* a line of the form: letter a..e of either case, `)`, optional white
\* space, optional [PAGEID] and white space, text of one character or more
HasChoiceForm(line) ==
    /\ Len(line) >= 3
    /\ line[1] \in {"a", "b", "c", "d", "e", "A", "B", "C", "D", "E"}
    /\ line[2] = ")"
    /\ \E p \in 3..Len(line), q \in 3..Len(line) :
           /\ p <= q
           /\ \A j \in 3..(p - 1) : line[j] \in WhiteSpace
           /\ \/ q = p
              \/ /\ GotoEnd(line, p) # 0 /\ GotoEnd(line, p) < q
                 /\ \A j \in (GotoEnd(line, p) + 1)..(q - 1) : line[j] \in WhiteSpace

\* C29: a line is parsed as a choice exactly when it has the form letter
\* a..e (either case), `)`, optional white space, optional [PAGEID],
\* non-empty text, with the lowercased letter as its letter; and
\* parseChoiceLine, extractChoices and parsePageContent recognise the same
\* lines with the same fields.
C29_ChoiceLines ==
    /\ Returned("parseChoiceLine") /\ (\A j \in 1..Len(text) : text[j] # "\n") =>
           /\ result.value # NoChoiceLine <=> HasChoiceForm(text)
           /\ result.value # NoChoiceLine => result.value.letter = LowerCase(text[1])
    /\ Returned("extractChoices") => result.value.choices = LineChoices(text)
    /\ Returned("parsePageContent") /\ result.value.hasChoices =>
           result.value.choices = LineChoices(text)

\* on a text of one line the three functions give the same choice
C29_OneLine ==
    (\A j \in 1..Len(text) : text[j] # "\n") =>
        /\ Returned("parseChoiceLine") =>
               /\ result.value # NoChoiceLine <=> HasChoiceForm(text)
               /\ result.value # NoChoiceLine => result.value.letter = LowerCase(text[1])
        /\ Returned("extractChoices") => result.value.choices = LineChoices(text)
        /\ Returned("parsePageContent") =>
               result.value.hasChoices = (LineChoices(text) # <<>>)
        /\ Returned("parsePageContent") /\ result.value.hasChoices =>
               result.value.choices = LineChoices(text)

(***************************************************************************)
(* editor/pages.ts renamePage on collections whose gotos point to other    *)
(* pages, to page 1 and to the page itself.                                *)
(***************************************************************************)
\* choices.map(choice => choice.goto === oldId ? { ...choice, goto: newId } : choice)
UpdateGotos(choices, oldId, newId) ==
    [k \in 1..Len(choices) |->
        IF choices[k].goto = oldId THEN [choices[k] EXCEPT !.goto = newId]
        ELSE choices[k]]

renamePage(oldId, newId, pgs) ==
    [id \in (DOMAIN pgs \ {oldId}) \cup {newId} |->
        IF id = newId THEN pgs[oldId]
        ELSE [pgs[id] EXCEPT !.choices = UpdateGotos(@, oldId, newId)]]

\* the new ids: free ids of the collection
RenamePage ==
    \E oldId \in DOMAIN pages, newId \in (WalkIds \cup {"3"}) \ DOMAIN pages :
        Return("renamePage",
               [oldId |-> oldId, newId |-> newId,
                pages |-> renamePage(oldId, newId, pages)])

InitRename == /\ pc = "input"
              /\ pages \in WalkCollections
              /\ editorState = <<>> /\ editorElements = <<>>
              /\ TextIdle /\ PlayerIdle

NextRename == RenamePage

SpecRename == InitRename /\ [][NextRename]_vars

GotosOf(page) == {page.choices[k].goto : k \in 1..Len(page.choices)}

\* C30: for oldId present and newId not present, renamePage returns a
\* collection in which oldId is absent, newId holds the page formerly at
\* oldId, every other page is kept under its own id, and no choice of any
\* page, the renamed page included, still has goto equal to oldId.
C30_Renamed ==
    Returned("renamePage") =>
        /\ ~Has(result.value.pages, result.value.oldId)
        /\ Has(result.value.pages, result.value.newId)
        /\ result.value.pages[result.value.newId].content = pages[result.value.oldId].content
        /\ DOMAIN result.value.pages \ {result.value.newId} =
               DOMAIN pages \ {result.value.oldId}
        /\ \A id \in DOMAIN result.value.pages :
               result.value.oldId \notin GotosOf(result.value.pages[id])

\* the same without the choices of the renamed page
C30_OtherPages ==
    Returned("renamePage") =>
        /\ ~Has(result.value.pages, result.value.oldId)
        /\ result.value.pages[result.value.newId] = pages[result.value.oldId]
        /\ DOMAIN result.value.pages \ {result.value.newId} =
               DOMAIN pages \ {result.value.oldId}
        /\ \A id \in DOMAIN result.value.pages \ {result.value.newId} :
               result.value.oldId \notin GotosOf(result.value.pages[id])

(***************************************************************************)
(* editor/undo.ts: the undo manager.  An action keeps clones of the page   *)
(* before and after (JSON clones of records of strings and booleans, which *)
(* share nothing with the page they were taken from); null is NoPage.      *)
(* affectedPages is a page collection, empty when the action has none.     *)
(* The editor records edit, create and delete actions only.                *)
(***************************************************************************)
MAX_UNDO_STACK_SIZE == 50

NoPage == [isNull |-> TRUE]

UndoAction(type, pageId, before, after, affectedPages) ==
    [type |-> type, pageId |-> pageId, before |-> before, after |-> after,
     affectedPages |-> affectedPages]

createUndoManager == [undoStack |-> <<>>, redoStack |-> <<>>]

\* newPages[id] = page
SetPage(pgs, id, page) ==
    [k \in DOMAIN pgs \cup {id} |-> IF k = id THEN page ELSE pgs[k]]

\* delete newPages[id], for every id of ids
DeletePages(pgs, ids) == [k \in DOMAIN pgs \ ids |-> pgs[k]]

\* newPages[id] = page, for every entry of affectedPages
SetPages(pgs, affectedPages) ==
    [k \in DOMAIN pgs \cup DOMAIN affectedPages |->
        IF k \in DOMAIN affectedPages THEN affectedPages[k] ELSE pgs[k]]

\* the push without the limit on the stack
pushAction_unlimited(manager, action) ==
    [undoStack |-> Append(manager.undoStack, action), redoStack |-> <<>>]

pushAction(manager, action) ==
    [undoStack |-> IF Len(manager.undoStack) + 1 > MAX_UNDO_STACK_SIZE
                   THEN Tail(Append(manager.undoStack, action))
                   ELSE Append(manager.undoStack, action),
     redoStack |-> <<>>]

recordEdit(manager, pageId, before, after) ==
    pushAction(manager, UndoAction("edit", pageId, before, after, <<>>))

recordDelete(manager, pageId, deletedPage, affectedPages) ==
    pushAction(manager, UndoAction("delete", pageId, deletedPage, NoPage, affectedPages))

recordCreate(manager, pageId, createdPage) ==
    pushAction(manager, UndoAction("create", pageId, NoPage, createdPage, <<>>))

canUndo(manager) == manager.undoStack # <<>>
canRedo(manager) == manager.redoStack # <<>>

Last(stack) == stack[Len(stack)]
Pop(stack) == SubSeq(stack, 1, Len(stack) - 1)

\* undo's switch (action.type)
UndoPages(action, pgs) ==
    CASE action.type = "edit" ->
            IF action.before # NoPage THEN SetPage(pgs, action.pageId, action.before)
            ELSE DeletePages(pgs, {action.pageId})
      [] action.type = "delete" ->
            SetPages(IF action.before # NoPage
                     THEN SetPage(pgs, action.pageId, action.before) ELSE pgs,
                     action.affectedPages)
      [] action.type = "create" -> DeletePages(pgs, {action.pageId})

\* undo that leaves an edited page as it is
undo_kept(manager, pgs) ==
    [pages |-> IF Last(manager.undoStack).type = "edit" THEN pgs
               ELSE UndoPages(Last(manager.undoStack), pgs),
     manager |-> [undoStack |-> Pop(manager.undoStack),
                  redoStack |-> Append(manager.redoStack, Last(manager.undoStack))]]

\* undo(manager, pages) for a manager that can undo: the new collection, and
\* the manager after the call
undo(manager, pgs) ==
    [pages |-> UndoPages(Last(manager.undoStack), pgs),
     manager |-> [undoStack |-> Pop(manager.undoStack),
                  redoStack |-> Append(manager.redoStack, Last(manager.undoStack))]]

\* redo's switch (action.type)
RedoPages(action, pgs) ==
    CASE action.type = "edit" ->
            IF action.after # NoPage THEN SetPage(pgs, action.pageId, action.after)
            ELSE DeletePages(pgs, {action.pageId})
      [] action.type = "delete" ->
            DeletePages(pgs, {action.pageId} \cup DOMAIN action.affectedPages)
      [] action.type = "create" ->
            IF action.after # NoPage THEN SetPage(pgs, action.pageId, action.after)
            ELSE pgs

\* redo(manager, pages) for a manager that can redo
redo(manager, pgs) ==
    [pages |-> RedoPages(Last(manager.redoStack), pgs),
     manager |-> [undoStack |-> Append(manager.undoStack, Last(manager.redoStack)),
                  redoStack |-> Pop(manager.redoStack)]]

(***************************************************************************)
(* editor/main.ts: the editor.  An editor value e holds state.pages,       *)
(* state.currentPageId ("" for null), state.undoManager,                   *)
(* state.hasUnsavedChanges and the form elements: the content textarea,    *)
(* the two checkboxes, the a and b choice inputs, and which of the choices *)
(* section, the editing panel and the delete dialog are shown.             *)
(***************************************************************************)
\* the value of x handed to F, computed once
With(x, F(_)) == CHOOSE r \in {F(y) : y \in {x}} : TRUE

createEmptyPage(hasChoices) ==
    Page("", hasChoices, FALSE,
         IF hasChoices THEN <<Choice("a", "", ""), Choice("b", "", "")>> ELSE <<>>)

\* a string before another in code-unit order, for page ids of one digit
\* and letters
StringBefore(x, y) ==
    LET px == parsePageId(x)
        py == parsePageId(y)
    IN  \/ px.num < py.num
        \/ /\ px.num = py.num
           /\ localeCompare(Split(px.path), Split(py.path)) < 0

\* Object.keys(state.pages).sort()[0], "" when there is no page
FirstSorted(pgs) ==
    IF DOMAIN pgs = {} THEN ""
    ELSE CHOOSE id \in DOMAIN pgs : \A other \in DOMAIN pgs \ {id} : StringBefore(id, other)

FormPage(els) ==
    Page(els.pageContent, els.hasChoicesCheckbox, els.isEndingCheckbox,
         <<Choice("a", els.choiceInputs[1], ""), Choice("b", els.choiceInputs[2], "")>>)

saveCurrentPage(e) ==
    IF e.currentPageId = "" \/ ~Has(e.pages, e.currentPageId) THEN e
    ELSE [e EXCEPT !.pages = SetPage(@, e.currentPageId, FormPage(e.elements)),
                   !.undoManager = recordEdit(@, e.currentPageId, e.pages[e.currentPageId],
                                              FormPage(e.elements)),
                   !.hasUnsavedChanges = TRUE]

\* ensureChildPages: one round of its loop
EnsureChild(e, childId) ==
    IF Has(e.pages, childId) THEN e
    ELSE [e EXCEPT !.pages = SetPage(@, childId, createEmptyPage(TRUE)),
                   !.undoManager = recordCreate(@, childId, createEmptyPage(TRUE))]

ensureChildPages(e) ==
    IF e.currentPageId = "" THEN e
    ELSE With(getChildIds(e.currentPageId, 2), LAMBDA children :
            IF children = <<>> THEN e
            ELSE With(EnsureChild(e, children[1].childId), LAMBDA first :
                    EnsureChild(first, children[2].childId)))

\* toggleChoices up to its saveCurrentPage()
ToggleChoicesForm(e, createChildren) ==
    IF e.elements.hasChoicesCheckbox /\ ~e.elements.isEndingCheckbox
    THEN With(IF createChildren THEN ensureChildPages(e) ELSE e, LAMBDA ensured :
            [ensured EXCEPT !.elements.choicesSection = TRUE])
    ELSE [e EXCEPT !.elements.choicesSection = FALSE,
                   !.elements.isEndingCheckbox =
                       IF e.elements.hasChoicesCheckbox /\ e.elements.isEndingCheckbox
                       THEN FALSE ELSE @]

toggleChoices(e, createChildren) ==
    With(ToggleChoicesForm(e, createChildren), LAMBDA toggled : saveCurrentPage(toggled))

toggleEnding(e) ==
    With(IF e.elements.isEndingCheckbox
         THEN [e EXCEPT !.elements.hasChoicesCheckbox = FALSE,
                        !.elements.choicesSection = FALSE]
         ELSE e,
         LAMBDA toggled : saveCurrentPage(toggled))

\* selectPage after `state.currentPageId = id`
SelectPageForm(e, id) ==
    IF ~Has(e.pages, id)
    THEN [e EXCEPT !.currentPageId = id, !.elements.editorMain = FALSE]
    ELSE toggleChoices(
            [e EXCEPT !.currentPageId = id,
                      !.elements.editorMain = TRUE,
                      !.elements.currentPageIdDisplay = id,
                      !.elements.pageContent = e.pages[id].content,
                      !.elements.hasChoicesCheckbox = e.pages[id].hasChoices,
                      !.elements.isEndingCheckbox = e.pages[id].isEnding,
                      !.elements.choiceInputs = <<FindChoice(e.pages[id], "a").text,
                                                  FindChoice(e.pages[id], "b").text>>],
            FALSE)

selectPage(e, id) ==
    With(IF e.currentPageId # "" /\ Has(e.pages, e.currentPageId)
         THEN saveCurrentPage(e) ELSE e,
         LAMBDA saved : SelectPageForm(saved, id))

\* addPage: `let num = 1; while (state.pages[String(num)]) num++`
NextFree(pgs) == CHOOSE num \in 1..(Cardinality(DOMAIN pgs) + 1) :
                    /\ ~Has(pgs, ToString(num))
                    /\ \A below \in 1..(num - 1) : Has(pgs, ToString(below))

NewPageId(e) ==
    IF e.currentPageId # ""
    THEN IF parsePageId(e.currentPageId) # NoId
         THEN With(IdString(parsePageId(e.currentPageId).num + 1,
                            parsePageId(e.currentPageId).path),
                   LAMBDA newId : IF Has(e.pages, newId)
                                  THEN ToString(NextFree(e.pages)) ELSE newId)
         ELSE "1"
    ELSE ToString(NextFree(e.pages))

addPage(e) ==
    With(NewPageId(e), LAMBDA newId :
        With(selectPage([e EXCEPT !.pages = SetPage(@, newId, createEmptyPage(TRUE)),
                                  !.undoManager = recordCreate(@, newId, createEmptyPage(TRUE))],
                        newId),
             LAMBDA selected : [selected EXCEPT !.hasUnsavedChanges = TRUE]))

deletePage(e) ==
    IF e.currentPageId = "" \/ e.currentPageId = "1" THEN e
    ELSE [e EXCEPT !.elements.deleteModal = TRUE]

closeModal(e) == [e EXCEPT !.elements.deleteModal = FALSE]

ToSet(seq) == {seq[k] : k \in 1..Len(seq)}

\* confirmDelete up to `state.currentPageId = null`, for a current page that
\* is in the collection
ConfirmDeletePages(e) ==
    With(ToSet(getDescendants(e.currentPageId, e.pages)), LAMBDA descendants :
        [e EXCEPT !.pages = DeletePages(@, descendants \cup {e.currentPageId}),
                  !.undoManager = recordDelete(@, e.currentPageId, e.pages[e.currentPageId],
                                               [id \in descendants |-> e.pages[id]]),
                  !.elements.deleteModal = FALSE,
                  !.currentPageId = ""])

confirmDelete(e) ==
    IF e.currentPageId = "" THEN e
    ELSE With(ConfirmDeletePages(e), LAMBDA deleted :
            With(IF FirstSorted(deleted.pages) # ""
                 THEN selectPage(deleted, FirstSorted(deleted.pages))
                 ELSE [deleted EXCEPT !.elements.editorMain = FALSE],
                 LAMBDA selected : [selected EXCEPT !.hasUnsavedChanges = TRUE]))

\* performUndo after `state.pages = result.pages`
PerformUndoSelect(e) ==
    With(IF e.currentPageId # "" /\ Has(e.pages, e.currentPageId)
         THEN selectPage(e, e.currentPageId)
         ELSE IF FirstSorted(e.pages) # "" THEN selectPage(e, FirstSorted(e.pages))
         ELSE e,
         LAMBDA selected : [selected EXCEPT !.hasUnsavedChanges = TRUE])

performUndo(e) ==
    IF ~canUndo(e.undoManager) THEN e
    ELSE With(undo(e.undoManager, e.pages), LAMBDA undone :
            PerformUndoSelect([e EXCEPT !.pages = undone.pages,
                                        !.undoManager = undone.manager]))

performRedo(e) ==
    IF ~canRedo(e.undoManager) THEN e
    ELSE With(redo(e.undoManager, e.pages), LAMBDA redone :
            With([e EXCEPT !.pages = redone.pages, !.undoManager = redone.manager],
                 LAMBDA applied :
                    With(IF applied.currentPageId # ""
                            /\ Has(applied.pages, applied.currentPageId)
                         THEN selectPage(applied, applied.currentPageId) ELSE applied,
                         LAMBDA selected : [selected EXCEPT !.hasUnsavedChanges = TRUE])))

(***************************************************************************)
(* The editor under the author's events.  pc names the handler that ran    *)
(* last.  The state after init() has page '1' selected.                    *)
(***************************************************************************)
MaxEditorPages == 3
MaxEditorActions == 8

EditorContents == {"", "x"}
EditorChoiceTexts == {"", "t"}

Editor ==
    [pages |-> pages, currentPageId |-> editorState.currentPageId,
     undoManager |-> editorState.undoManager,
     hasUnsavedChanges |-> editorState.hasUnsavedChanges,
     elements |-> editorElements]

\* the pages and the recorded actions the model follows
EditorBounded(e) ==
    /\ Cardinality(DOMAIN e.pages) <= MaxEditorPages
    /\ \A id \in DOMAIN e.pages : parsePageId(id) # NoId
    /\ Len(e.undoManager.undoStack) <= MaxEditorActions

SetEditor(handler, e) ==
    /\ EditorBounded(e)
    /\ pc' = handler
    /\ pages' = e.pages
    /\ editorState' = [currentPageId |-> e.currentPageId, undoManager |-> e.undoManager,
                       hasUnsavedChanges |-> e.hasUnsavedChanges]
    /\ editorElements' = e.elements
    /\ UNCHANGED <<textVars, playerVars>>

\* init(): `state.pages['1'] = createEmptyPage(true)`, then selectPage('1')
InitialEditor ==
    selectPage([pages |-> [id \in {"1"} |-> createEmptyPage(TRUE)],
                currentPageId |-> "",
                undoManager |-> createUndoManager,
                hasUnsavedChanges |-> FALSE,
                elements |-> [pageContent |-> "", hasChoicesCheckbox |-> FALSE,
                              isEndingCheckbox |-> FALSE, choiceInputs |-> <<"", "">>,
                              choicesSection |-> FALSE, editorMain |-> FALSE,
                              deleteModal |-> FALSE, currentPageIdDisplay |-> ""]],
               "1")

\* the 'input' listener of the content textarea
InputPageContent ==
    /\ editorElements.editorMain
    /\ \E value \in EditorContents \ {editorElements.pageContent} :
        \E e \in {saveCurrentPage([Editor EXCEPT !.elements.pageContent = value])} :
            SetEditor("inputPageContent", e)

\* the 'input' listener of a choice input
InputChoice ==
    /\ editorElements.editorMain /\ editorElements.choicesSection
    /\ \E k \in 1..2 : \E value \in EditorChoiceTexts \ {editorElements.choiceInputs[k]} :
        \E e \in {saveCurrentPage([Editor EXCEPT !.elements.choiceInputs[k] = value])} :
            SetEditor("inputChoice", e)

\* the 'change' listener of the 'Has choices' checkbox
ChangeHasChoices ==
    /\ editorElements.editorMain
    /\ \E e \in {toggleChoices([Editor EXCEPT !.elements.hasChoicesCheckbox = ~@], TRUE)} :
            SetEditor("changeHasChoices", e)

\* the 'change' listener of the 'Is ending' checkbox
ChangeIsEnding ==
    /\ editorElements.editorMain
    /\ \E e \in {toggleEnding([Editor EXCEPT !.elements.isEndingCheckbox = ~@])} :
            SetEditor("changeIsEnding", e)

\* a click on an entry of the page tree
SelectPage ==
    \E id \in DOMAIN pages :
        \E e \in {selectPage(Editor, id)} : SetEditor("selectPage", e)

AddPage == \E e \in {addPage(Editor)} : SetEditor("addPage", e)

DeletePage == \E e \in {deletePage(Editor)} : SetEditor("deletePage", e)

\* the buttons of the delete dialog
ConfirmDelete ==
    /\ editorElements.deleteModal
    /\ \E e \in {confirmDelete(Editor)} : SetEditor("confirmDelete", e)

CloseModal ==
    /\ editorElements.deleteModal
    /\ \E e \in {closeModal(Editor)} : SetEditor("closeModal", e)

PerformUndo == \E e \in {performUndo(Editor)} : SetEditor("performUndo", e)

PerformRedo == \E e \in {performRedo(Editor)} : SetEditor("performRedo", e)

InitEditor ==
    /\ pc = "init"
    /\ pages = InitialEditor.pages
    /\ editorState = [currentPageId |-> InitialEditor.currentPageId,
                      undoManager |-> InitialEditor.undoManager,
                      hasUnsavedChanges |-> InitialEditor.hasUnsavedChanges]
    /\ editorElements = InitialEditor.elements
    /\ TextIdle /\ PlayerIdle

NextEditor ==
    \/ InputPageContent \/ InputChoice \/ ChangeHasChoices \/ ChangeIsEnding
    \/ SelectPage \/ AddPage \/ DeletePage \/ ConfirmDelete \/ CloseModal
    \/ PerformUndo \/ PerformRedo

SpecEditor == InitEditor /\ [][NextEditor]_vars

\* the selected page is in the collection and the form shows it
FormInSync ==
    /\ editorState.currentPageId \in DOMAIN pages
    /\ pages[editorState.currentPageId] = FormPage(editorElements)

\* the default child pages of the selected page are in the collection
ChildPagesExist(pageId, pgs) ==
    /\ Len(getChildIds(pageId, 2)) = 2
    /\ \A k \in 1..2 : Has(pgs, getChildIds(pageId, 2)[k].childId)

\* C31: after the author checks 'Has choices' on the selected page, both
\* default child pages (number+1, path+'a') and (number+1, path+'b') are in
\* the page collection, whatever the 'Is ending' checkbox showed.
C31_ChildPagesCreated ==
    [][(pc' = "changeHasChoices" /\ ~editorElements.hasChoicesCheckbox)
          => ChildPagesExist(editorState.currentPageId, pages')]_vars

\* the same for a page whose 'Is ending' checkbox is not checked
C31_NotEnding ==
    [][(/\ pc' = "changeHasChoices"
        /\ ~editorElements.hasChoicesCheckbox
        /\ ~editorElements.isEndingCheckbox)
          => ChildPagesExist(editorState.currentPageId, pages')]_vars

\* C33: after the author edits the selected page and the edit has been
\* saved (recorded), one performUndo leaves the stored page in state.pages
\* equal to its value before the edit, and the form shows that value.
C33_UndoRestoresEdit ==
    [][(pc = "inputPageContent" /\ pc' = "performUndo")
          => /\ pages'[editorState.currentPageId] =
                    Last(editorState.undoManager.undoStack).before
             /\ FormPage(editorElements') =
                    Last(editorState.undoManager.undoStack).before]_vars

\* what one performUndo after an edit does: the page and the form keep the
\* edited value, and the undo stack is one action longer
C33_UndoKeepsEdit ==
    [][(pc = "inputPageContent" /\ pc' = "performUndo")
          => /\ pages' = pages
             /\ FormPage(editorElements') = FormPage(editorElements)
             /\ Len(editorState'.undoManager.undoStack) =
                    Len(editorState.undoManager.undoStack) + 1]_vars

\* C35: the delete flow never removes page '1': after any selectPage,
\* deletePage, confirmDelete or closeModal call, page '1' is still in the
\* collection if it was there before.
C35_FirstPageKept ==
    [][(/\ pc' \in {"selectPage", "deletePage", "confirmDelete", "closeModal"}
        /\ Has(pages, "1"))
          => Has(pages', "1")]_vars

\* deletePage itself opens the dialog for no page '1'
C35_NoDialogForFirstPage ==
    [][(pc' = "deletePage" /\ editorState.currentPageId = "1")
          => editorElements'.deleteModal = editorElements.deleteModal]_vars

\* C38: selecting a page without changing any form field leaves the undo
\* stack and the redo stack unchanged.
C38_SelectKeepsHistory ==
    [][pc' = "selectPage" => editorState'.undoManager = editorState.undoManager]_vars

\* what the editor's handlers leave: the action on top of the undo stack is
\* an edit of the selected page, and there is nothing to redo
C38_NothingToRedo ==
    /\ editorState.undoManager.redoStack = <<>>
    /\ Last(editorState.undoManager.undoStack).type = "edit"
    /\ Last(editorState.undoManager.undoStack).pageId = editorState.currentPageId

(***************************************************************************)
(* The undo manager under a caller that records what it does to the        *)
(* collection, as editor/main.ts does: an edit with the page before and    *)
(* after (saveCurrentPage), a create with the new page (addPage,           *)
(* ensureChildPages), a delete with the page and its descendants           *)
(* (confirmDelete).  result keeps the call made last, with the collection  *)
(* and the manager it was made on, and the number of calls so far.         *)
(***************************************************************************)
MaxUndoCalls == 5

UndoIds == {"1", "2", "2a"}

\* the manager after page '1' of a new story has been selected n times
\* over: every selection records edits that change nothing
SelectedOver(n) ==
    [undoStack |-> [k \in 1..n |-> UndoAction("edit", "1", createEmptyPage(TRUE),
                                              createEmptyPage(TRUE), <<>>)],
     redoStack |-> <<>>]

Called(fn) ==
    /\ pc = "input"
    /\ result.calls < MaxUndoCalls
    /\ result' = [fn |-> fn, calls |-> result.calls + 1, previous |-> result.fn,
                  pages |-> pages, manager |-> editorState.undoManager]
    /\ UNCHANGED <<pc, text, variables, editorElements, playerVars>>

RecordEdit ==
    \E pageId \in DOMAIN pages :
        \E page \in {[pages[pageId] EXCEPT !.content = IF @ = "" THEN "x" ELSE ""]} :
            /\ Called("recordEdit")
            /\ pages' = SetPage(pages, pageId, page)
            /\ editorState' = [editorState EXCEPT
                    !.undoManager = recordEdit(@, pageId, pages[pageId], page)]

RecordCreate ==
    \E pageId \in UndoIds \ DOMAIN pages :
        /\ Called("recordCreate")
        /\ pages' = SetPage(pages, pageId, createEmptyPage(TRUE))
        /\ editorState' = [editorState EXCEPT
                !.undoManager = recordCreate(@, pageId, createEmptyPage(TRUE))]

RecordDelete ==
    \E pageId \in DOMAIN pages :
        \E descendants \in {ToSet(getDescendants(pageId, pages))} :
            /\ Called("recordDelete")
            /\ pages' = DeletePages(pages, descendants \cup {pageId})
            /\ editorState' = [editorState EXCEPT
                    !.undoManager = recordDelete(@, pageId, pages[pageId],
                                                 [id \in descendants |-> pages[id]])]

Undo ==
    /\ canUndo(editorState.undoManager)
    /\ Called("undo")
    /\ pages' = undo(editorState.undoManager, pages).pages
    /\ editorState' = [editorState EXCEPT
            !.undoManager = undo(editorState.undoManager, pages).manager]

Redo ==
    /\ canRedo(editorState.undoManager)
    /\ Called("redo")
    /\ pages' = redo(editorState.undoManager, pages).pages
    /\ editorState' = [editorState EXCEPT
            !.undoManager = redo(editorState.undoManager, pages).manager]

InitUndo ==
    /\ pc = "input"
    /\ pages = [id \in {"1"} |-> createEmptyPage(TRUE)]
    /\ \E manager \in {createUndoManager, SelectedOver(MAX_UNDO_STACK_SIZE - 1)} :
        /\ editorState = [currentPageId |-> "1", undoManager |-> manager,
                          hasUnsavedChanges |-> TRUE]
        /\ result = [fn |-> "none", calls |-> 0, previous |-> "none",
                     pages |-> pages, manager |-> manager]
    /\ editorElements = <<>>
    /\ text = <<>> /\ variables = EmptyState
    /\ PlayerIdle

NextUndo == RecordEdit \/ RecordCreate \/ RecordDelete \/ Undo \/ Redo

SpecUndo == InitUndo /\ [][NextUndo]_vars

\* C39: for edit, create and delete actions, undo followed immediately by
\* redo returns the page collection to its value before the undo, redo
\* followed immediately by undo returns it to its value before the redo,
\* and each call moves exactly one action between the two stacks.
C39_UndoRedoInverse ==
    [][/\ (result.fn = "undo" /\ result'.fn = "redo") => pages' = result.pages
       /\ (result.fn = "redo" /\ result'.fn = "undo") => pages' = result.pages
       /\ result'.fn = "undo" =>
            /\ editorState'.undoManager.undoStack = Pop(editorState.undoManager.undoStack)
            /\ editorState'.undoManager.redoStack =
                   Append(editorState.undoManager.redoStack,
                          Last(editorState.undoManager.undoStack))
       /\ result'.fn = "redo" =>
            /\ editorState'.undoManager.redoStack = Pop(editorState.undoManager.redoStack)
            /\ editorState'.undoManager.undoStack =
                   Append(editorState.undoManager.undoStack,
                          Last(editorState.undoManager.redoStack))]_vars

\* a deletion of a page with a descendant has been undone, redone and
\* undone again
C39_Witness ==
    /\ result.fn = "undo" /\ result.previous = "redo"
    /\ Last(editorState.undoManager.redoStack).type = "delete"
    /\ Last(editorState.undoManager.redoStack).affectedPages # <<>>
    /\ pages # result.pages

\* C40: the undo stack never holds more than 50 actions after any sequence
\* of record (edit, create, delete), undo and redo calls.
C40_StackLimit == Len(editorState.undoManager.undoStack) <= MAX_UNDO_STACK_SIZE

\* an action was recorded on a full stack
C40_Witness ==
    /\ result.fn \in {"recordEdit", "recordCreate", "recordDelete"}
    /\ Len(result.manager.undoStack) = MAX_UNDO_STACK_SIZE
    /\ Len(editorState.undoManager.undoStack) = MAX_UNDO_STACK_SIZE

(***************************************************************************)
(* processVariables on pages that mix conditional blocks with directives   *)
(* written before the block, after it and inside its body.                 *)
(***************************************************************************)
MaxPageTokens == 4

PageTokenAlphabet ==
    {IfTok("hasKey", "", ""), IfTok("x", ">", "5"), EndIf, Txt("X"),
     SetTok("hasKey", "true"), AddTok("x", "5"), SubTok("x", "1")}

PageStartStates ==
    {[EmptyState EXCEPT !["x"] = x, !["hasKey"] = h] :
        x \in {Undefined, Num(5)}, h \in {Undefined, Bool(TRUE)}}

InitPageState == /\ pc = "input"
                 /\ text \in SeqsUpTo(PageTokenAlphabet, MaxPageTokens)
                 /\ variables \in PageStartStates
                 /\ result = NoResult
                 /\ EditorIdle /\ PlayerIdle

NextPageState == ProcessVariablesEngine \/ ProcessVariablesFormat

SpecPageState == InitPageState /\ [][NextPageState]_vars

\* the state after every set/add/sub directive of the page, wherever it is
\* written, has been applied to the state the page started with
RECURSIVE AfterDirectives(_, _)
AfterDirectives(state, t) ==
    IF t = <<>> THEN state
    ELSE AfterDirectives(
            CASE Head(t).kw = "set" ->
                    [state EXCEPT ![Head(t).a] = parseVariableValue(Head(t).v)]
              [] Head(t).kw \in {"add", "sub"} -> AddSub(state, Head(t))
              [] OTHER -> state,
            Tail(t))

WithoutDirectives(t) == SelectSeq(t, LAMBDA tok : tok.kw \notin {"set", "add", "sub"})

\* C32: the conditionals of a page are evaluated against the variable state
\* obtained after all of the page's set/add/sub directives have been
\* applied, those written after the conditional or inside its body
\* included, not against the state the page started with.
C32_FinalState ==
    /\ Returned("processVariables_engine") =>
            result.value.text =
                processConditionals_engine(WithoutDirectives(text),
                                           AfterDirectives(variables, text))
    /\ Returned("processVariables_format") =>
            result.value.text =
                processConditionals_format(WithoutDirectives(text),
                                           AfterDirectives(variables, text))

\* a block whose condition is false at the start of the page and true after
\* a directive written behind the block
C32_Witness ==
    /\ Returned("processVariables_engine")
    /\ text = <<IfTok("hasKey", "", ""), Txt("X"), EndIf, SetTok("hasKey", "true")>>
    /\ variables["hasKey"] = Undefined
    /\ result.value.text = <<Txt("X")>>

\* the same for a directive inside the body of the block it decides
C32_InsideBody ==
    /\ text = <<IfTok("x", ">", "5"), AddTok("x", "5"), Txt("X"), EndIf>>
    /\ variables["x"] = Num(5)
    /\ pc = "done"
    => result.value.text = <<Txt("X")>>

(***************************************************************************)
(* Save and resume: a story whose second page counts in a variable, played *)
(* from a new game, left by opening the story folder again, and resumed.   *)
(* No load is under way when the player acts.                              *)
(***************************************************************************)
MaxCounted == 40

CountingStory ==
    ("1.txt" :> <<Txt("Start"), SetTok("x", "5"), Music("theme.mp3", TRUE)>>)
    @@ ("2.txt" :> <<Txt("Room"), AddTok("x", "5"), ChoiceLine("a", "", "Left")>>)
    @@ ("3a.txt" :> <<Txt("Hall"), SetTok("hasKey", "true")>>)

\* the story folder is opened again while the count is small
Reopen ==
    /\ Current(playerState.variables, "x") < MaxCounted
    /\ OpenStoryFolder

InitResume ==
    /\ pc = "menu"
    /\ TextIdle /\ EditorIdle
    /\ playerState = [createPlayerState EXCEPT !.storyFolder = "story"]
    /\ elements = InitialElements(Panel(FALSE, <<>>))
    /\ storage = NoSave
    /\ audioManager = createAudioManager
    /\ assetManager = InitialAssets
    /\ storyDirHandle = CountingStory
    /\ loads = <<>>

\* the player acts on a page that has been displayed in full
NextResume ==
    \/ loads = <<>> /\ StartNewGame
    \/ loads = <<>> /\ ResumeGame
    \/ \E k \in 1..Len(elements.choices) : loads = <<>> /\ HandleChoice(k)
    \/ loads = <<>> /\ HandleContinue
    \/ loads = <<>> /\ Reopen
    \/ \E i \in 1..Len(loads) : ReadDone(i)
    \/ \E i \in 1..Len(loads) : UrlDone(i)
    \/ \E i \in 1..Len(loads) : PlayDone(i)

SpecResume == InitResume /\ [][NextResume]_vars

\* the player stands where the progress was saved, with the saved values,
\* and the page is about to be displayed
Resumed(i) ==
    /\ storage # NoSave
    /\ playerState.currentPage = storage.page
    /\ playerState.currentPath = storage.path
    /\ playerState.variables = storage.variables
    /\ loads[i].filename = getCurrentFilename(playerState)

\* C34: resuming a saved game restores the saved page number and path, and
\* once the saved page has been displayed again the variable values equal
\* the values that were stored when the progress was saved.
C34_ResumeRestores ==
    /\ [][ResumeGame => /\ playerState'.currentPage = storage.page
                        /\ playerState'.currentPath = storage.path]_vars
    /\ [][\A i \in 1..Len(loads) :
             Resumed(i) /\ ReadDone(i) => playerState'.variables = storage.variables]_vars

\* the first half alone: the position and, before the page is displayed,
\* the values are the saved ones
C34_PositionRestored ==
    [][ResumeGame => /\ playerState'.currentPage = storage.page
                     /\ playerState'.currentPath = storage.path
                     /\ playerState'.variables = storage.variables]_vars

(***************************************************************************)
(* editor/export.ts generatePageContent and the importer's                 *)
(* parsePageContent, on pages whose content, choice texts and gotos are    *)
(* sequences of single characters.  pages holds the one page exported.     *)
(***************************************************************************)
MaxContentPieces == 2

ContentPieces ==
    {<<"x">>, <<" ">>, <<"\n">>, <<"{", "g", "o", "t", "o", ":", "3", "}">>}

ExportContents ==
    {Flatten(q) : q \in UNION {[1..k -> ContentPieces] : k \in 0..MaxContentPieces}}

ExportChoices(letter) ==
    {Choice(letter, label, goto) :
        label \in {<<>>, <<" ">>, <<"x">>}, goto \in {<<>>, <<"3", "a">>}}

ExportPages ==
    {Page(content, hasChoices, isEnding, choices) :
        content \in ExportContents, hasChoices \in BOOLEAN, isEnding \in BOOLEAN,
        choices \in {<<>>} \cup {<<a>> : a \in ExportChoices("a")}
                   \cup {<<a, b>> : a \in ExportChoices("a"), b \in ExportChoices("b")}}

\* String.prototype.trimEnd
TrimEndChars(cs) ==
    SubSeq(cs, 1, CHOOSE b \in 0..Len(cs) :
                      /\ b = 0 \/ cs[b] \notin WhiteSpace
                      /\ \A j \in (b + 1)..Len(cs) : cs[j] \in WhiteSpace)

\* `${c.letter}) [${c.goto}] ${c.text}` or `${c.letter}) ${c.text}`
ChoiceLineChars(c) ==
    <<c.letter, ")", " ">>
    \o (IF c.goto # <<>> THEN <<"[">> \o c.goto \o <<"]", " ">> ELSE <<>>)
    \o c.text

\* Array.prototype.join('\n')
RECURSIVE JoinLines(_)
JoinLines(lines) ==
    IF lines = <<>> THEN <<>>
    ELSE IF Len(lines) = 1 THEN Head(lines)
    ELSE Head(lines) \o <<"\n">> \o JoinLines(Tail(lines))

\* page.choices.filter(c => c.text.trim())
NonBlank(choices) == SelectSeq(choices, LAMBDA c : TrimChars(c.text) # <<>>)

generatePageContent(page) ==
    IF /\ page.hasChoices /\ ~page.isEnding /\ Len(page.choices) > 0
       /\ NonBlank(page.choices) # <<>>
    THEN TrimEndChars(page.content) \o <<"\n", "\n">>
         \o JoinLines([k \in 1..Len(NonBlank(page.choices)) |->
                          ChoiceLineChars(NonBlank(page.choices)[k])])
    ELSE page.content

GeneratePageContent ==
    Return("generatePageContent", generatePageContent(pages["1"]))

\* the exported text of the page, imported again
ImportExported ==
    Return("parsePageContent", parsePageContent(generatePageContent(pages["1"])))

InitExport == /\ pc = "input"
              /\ \E page \in ExportPages : pages = [id \in {"1"} |-> page]
              /\ editorState = <<>> /\ editorElements = <<>>
              /\ TextIdle /\ PlayerIdle

NextExport == GeneratePageContent \/ ImportExported

SpecExport == InitExport /\ [][NextExport]_vars

\* the choices of a page as the importer writes them: strings for the text
\* and the goto
AsImported(choices) ==
    [k \in 1..Len(choices) |->
        Choice(choices[k].letter, Join(choices[k].text), Join(choices[k].goto))]

ImportedNonBlank(choices) == SelectSeq(choices, LAMBDA c : c.text # "")

\* C36: exporting a page with generatePageContent and importing that text
\* with parsePageContent gives a page with the same hasChoices and isEnding
\* flags, the same non-blank choices (letter, text, goto) and the same
\* content up to surrounding white space.  No content of the model has a
\* choice-formatted line.
C36_ExportImport ==
    Returned("parsePageContent") =>
        /\ result.value.hasChoices = pages["1"].hasChoices
        /\ result.value.isEnding = pages["1"].isEnding
        /\ ImportedNonBlank(result.value.choices) = AsImported(NonBlank(pages["1"].choices))
        /\ result.value.content = Join(TrimChars(pages["1"].content))

\* the pages that come back as exported: a choice page that is no ending
\* and has a choice with text, and an ending page without choices to show
\* and without a goto directive in its content
C36_ChoiceAndEndingPages ==
    Returned("parsePageContent") =>
        /\ (/\ pages["1"].hasChoices /\ ~pages["1"].isEnding
            /\ NonBlank(pages["1"].choices) # <<>>) =>
                /\ result.value.hasChoices /\ ~result.value.isEnding
                /\ ImportedNonBlank(result.value.choices) =
                       AsImported(NonBlank(pages["1"].choices))
                /\ result.value.content = Join(TrimChars(pages["1"].content))
        /\ (/\ ~pages["1"].hasChoices /\ pages["1"].isEnding
            /\ ~IncludesChars(pages["1"].content, <<"{", "g", "o", "t", "o", ":">>)) =>
                /\ ~result.value.hasChoices /\ result.value.isEnding
                /\ result.value.content = Join(TrimChars(pages["1"].content))

(***************************************************************************)
(* engine/assets.ts getAssetUrl call by call, for a story opened as a      *)
(* folder (zipAssets and folderFiles are null).  loads holds the calls of  *)
(* getAssetUrl made so far, in call order: the await each one stands at,   *)
(* or the url it returned, whether it created that url with                *)
(* URL.createObjectURL, and whether URL.revokeObjectURL has been called on *)
(* it.  Every call of URL.createObjectURL returns a url of its own.        *)
(***************************************************************************)
MaxLookups == 4

LookupNames == {"theme.mp3", "rain", "ghost"}

Lookup(stage, assetName, dir, url, created) ==
    [stage |-> stage, assetName |-> assetName, dir |-> dir, url |-> url,
     created |-> created, revoked |-> FALSE]

\* URL.createObjectURL in the call of index i
createObjectURL_in(i, file) == createObjectURL(file) \o "#" \o ToString(i)

\* getAssetUrl up to its first await: the cache check, and
\* manager.assetsDir.getFileHandle(assetName) on the directory of the time
getAssetUrl_call(manager, assetName) ==
    IF assetName \in DOMAIN manager.blobUrls
    THEN Lookup("returned", assetName, {}, manager.blobUrls[assetName], FALSE)
    ELSE IF manager.assetsDir # {}
    THEN Lookup("getFileHandle", assetName, manager.assetsDir, "", FALSE)
    ELSE Lookup("returned", assetName, {}, "", FALSE)

\* getFileHandle has settled: getFile() on the handle, or the catch branch,
\* which reads manager.assetsDir again
getAssetUrl_handle(manager, lookup) ==
    IF lookup.assetName \in lookup.dir
    THEN [lookup EXCEPT !.stage = "getFile"]
    ELSE [lookup EXCEPT !.stage = "tryWithExtensions", !.dir = manager.assetsDir]

\* lines 125-132 with the blob found (Null for none): the url is created
\* and stored whatever the cache holds by now
getAssetUrl_end(manager, i, lookup, blob) ==
    IF blob = Null
    THEN [manager |-> manager, lookup |-> [lookup EXCEPT !.stage = "returned"]]
    ELSE [manager |-> [manager EXCEPT !.blobUrls =
                          (lookup.assetName :> createObjectURL_in(i, blob)) @@ @],
          lookup  |-> [lookup EXCEPT !.stage = "returned", !.created = TRUE,
                                     !.url = createObjectURL_in(i, blob)]]

\* what the calls of getAssetUrl leave alone
assetsRest == <<pc, textVars, editorVars, playerState, elements, storage,
                audioManager, storyDirHandle>>

\* a caller (processAssets of a page load, an audio command) calls getAssetUrl
GetAssetUrl ==
    /\ Len(loads) < MaxLookups
    /\ \E assetName \in LookupNames :
           loads' = Append(loads, getAssetUrl_call(assetManager, assetName))
    /\ UNCHANGED <<assetManager, assetsRest>>

\* preloadAssets: assetNames.map(name => getAssetUrl(manager, name)) makes
\* every call before any of them goes on
PreloadAssets ==
    /\ \E assetNames \in UNION {[1..k -> LookupNames] : k \in 2..MaxLookups} :
           /\ Len(loads) + Len(assetNames) <= MaxLookups
           /\ loads' = loads \o [k \in 1..Len(assetNames) |->
                                    getAssetUrl_call(assetManager, assetNames[k])]
    /\ UNCHANGED <<assetManager, assetsRest>>

GetFileHandleDone(i) ==
    /\ loads[i].stage = "getFileHandle"
    /\ loads' = [loads EXCEPT ![i] = getAssetUrl_handle(assetManager, @)]
    /\ UNCHANGED <<assetManager, assetsRest>>

GetFileDone(i) ==
    /\ loads[i].stage = "getFile"
    /\ \E end \in {getAssetUrl_end(assetManager, i, loads[i], loads[i].assetName)} :
           /\ assetManager' = end.manager
           /\ loads' = [loads EXCEPT ![i] = end.lookup]
    /\ UNCHANGED assetsRest

\* the awaits of tryWithExtensions change nothing; they are one step
TryWithExtensionsDone(i) ==
    /\ loads[i].stage = "tryWithExtensions"
    /\ \E end \in {getAssetUrl_end(assetManager, i, loads[i],
                                   tryWithExtensions(loads[i].dir, loads[i].assetName))} :
           /\ assetManager' = end.manager
           /\ loads' = [loads EXCEPT ![i] = end.lookup]
    /\ UNCHANGED assetsRest

\* the urls of Object.values(manager.blobUrls)
CachedUrls(manager) == {manager.blobUrls[name] : name \in DOMAIN manager.blobUrls}

\* URL.revokeObjectURL on every cached url
Revoked(manager) ==
    [i \in DOMAIN loads |->
        IF loads[i].created /\ loads[i].url \in CachedUrls(manager)
        THEN [loads[i] EXCEPT !.revoked = TRUE] ELSE loads[i]]

\* openStoryFolder: clearAssets, then setAssetsDirectory with the assets
\* directory of the folder picked
SetAssetsDirectory ==
    /\ loads # <<>>
    /\ loads' = Revoked(assetManager)
    /\ assetManager' = setAssetsDirectory(clearAssets(assetManager), StoryAssetsDir)
    /\ UNCHANGED assetsRest

InitAssets == /\ pc = "playing"
              /\ assetManager = InitialAssets
              /\ loads = <<>>
              /\ playerState = <<>> /\ elements = <<>> /\ storage = <<>>
              /\ audioManager = <<>> /\ storyDirHandle = <<>>
              /\ TextIdle /\ EditorIdle

NextAssets ==
    \/ GetAssetUrl
    \/ PreloadAssets
    \/ \E i \in DOMAIN loads : GetFileHandleDone(i)
    \/ \E i \in DOMAIN loads : GetFileDone(i)
    \/ \E i \in DOMAIN loads : TryWithExtensionsDone(i)
    \/ SetAssetsDirectory

SpecAssets == InitAssets /\ [][NextAssets]_vars

\* the call of index i creates a url in this step
Creates(i) ==
    /\ i \in DOMAIN loads /\ ~loads[i].created
    /\ loads'[i].created

\* C37: between two clearAssets calls getAssetUrl creates at most one blob
\* url per asset name, also with several lookups of the name in flight: a
\* call creates a url only for a name the cache does not hold, the cache
\* holding a name from the creation of its url to the next clearAssets.
\* And every url created and not yet revoked is the one the cache holds for
\* its name, so that the next clearAssets revokes it.
C37_OneUrlPerName ==
    /\ [][\A i \in 1..MaxLookups :
              Creates(i) => loads[i].assetName \notin DOMAIN assetManager.blobUrls]_vars
    /\ [](\A i \in DOMAIN loads :
              (loads[i].created /\ ~loads[i].revoked) =>
                  /\ loads[i].assetName \in DOMAIN assetManager.blobUrls
                  /\ assetManager.blobUrls[loads[i].assetName] = loads[i].url)

\* every url the cache holds was created by a call for its name and has
\* not been revoked
C37_CacheHoldsLiveUrls ==
    \A name \in DOMAIN assetManager.blobUrls :
        \E i \in DOMAIN loads :
            /\ loads[i].created /\ ~loads[i].revoked
            /\ loads[i].assetName = name
            /\ loads[i].url = assetManager.blobUrls[name]

====
